---- MODULE Spec2Model ----
(***************************************************************************)
(* A state-machine model of rmhd.c, the derivative operator dUdt of the    *)
(* relativistic MHD equations: the library lifecycle (initialize /         *)
(* finalize), the configuration (set_state / get_state), the grid-level    *)
(* operators dUdt_1d/2d/3d with Fiph, the reconstructions, hll_flux and    *)
(* the constrained transport, and the point-level operations               *)
(* prim_to_cons_point, cons_to_prim_point and rmhd_flux_and_eval.          *)
(*                                                                         *)
(* NUMBERS.  A C double is modelled by a triple <<n, d, e>>:               *)
(*   d > 0, e = 0   the rational n/d in lowest terms (an exact result);    *)
(*   d = 0          a non-finite double: <<0,0,0>> is NaN, <<1,0,0>> is    *)
(*                  +Inf and <<-1,0,0>> is -Inf, with the IEEE-754 rules   *)
(*                  (0/0 = NaN, x/0 = +-Inf, every comparison with NaN is  *)
(*                  false);                                                *)
(*   e # 0          n/d * 10^e: only the program's literal constants       *)
(*                  1e-10, 1e12 and 1e20, which lie beyond the 32-bit      *)
(*                  resolution of the checker's integers.  They are only   *)
(*                  compared and stored, never used in arithmetic.         *)
(* Rounding is not modelled: the inputs are chosen so that results are     *)
(* exact (sqrt is exact on squares of rationals and rounds down to the     *)
(* operand's denominator otherwise).  Signed zeros are not distinguished.  *)
(*                                                                         *)
(* INDICES.  The C enums count from 0, TLA+ tuples from 1: component k of  *)
(* the C code is component k+1 here.  Arrays of 8-double cells are         *)
(* functions from the cell number c = i/8 (0-based, as in the code) to     *)
(* 8-tuples; strides are kept in doubles, as in stride[].                  *)
(***************************************************************************)
EXTENDS Integers, Sequences, FiniteSets, TLC

(***************************************************************************)
(* Arithmetic of doubles                                                   *)
(***************************************************************************)
RECURSIVE GCD(_, _)
GCD(a, b) ==
    \* Euclid's algorithm, three steps at a time
    IF b = 0 THEN a
    ELSE LET c == a % b
         IN  IF c = 0 THEN b
             ELSE LET d == b % c
                  IN  IF d = 0 THEN c ELSE GCD(d, c % d)

Abs(n) == IF n < 0 THEN 0 - n ELSE n

Sgn(n) == IF n > 0 THEN 1 ELSE IF n < 0 THEN 0 - 1 ELSE 0

\* n/d divided through by g, the greatest common divisor of n and d
RatBy(n, d, g) == <<n \div g, d \div g, 0>>

\* the rational n/d in lowest terms, with a positive denominator
Rat(n, d) == RatBy(IF d < 0 THEN 0 - n ELSE n, Abs(d), GCD(Abs(n), Abs(d)))

Num(n) == <<n, 1, 0>>

NaN == <<0, 0, 0>>

PosInf == <<1, 0, 0>>

NegInf == <<0 - 1, 0, 0>>

Pow10(n, e) == <<n, 1, e>>

IsNaN(x) == x[2] = 0 /\ x[1] = 0

IsInf(x) == x[2] = 0 /\ x[1] # 0

IsFinite(x) == x[2] > 0

Zero == Num(0)

One == Num(1)

Two == Num(2)

Half == Rat(1, 2)

\* the sign of a double as an integer; 0 for zero (NaN is handled by the callers)
SignOf(x) == Sgn(x[1])

Neg(x) == <<0 - x[1], x[2], x[3]>>

\* an operand beyond the resolution of the model: 1e-10 counts as 0 and 1e12,
\* 1e20 as infinite in arithmetic (they are exact in comparisons)
Arg(x) ==
    IF x[3] = 0 THEN x
    ELSE IF x[3] < 0 THEN <<0, 1, 0>>
    ELSE <<Sgn(x[1]), 0, 0>>

\* the sum of two finite values over g, the common divisor of the denominators
AddBy(x, y, g) ==
    Rat(x[1] * (y[2] \div g) + y[1] * (x[2] \div g), (x[2] \div g) * y[2])

AddR(x, y) ==
    IF IsNaN(x) \/ IsNaN(y) THEN NaN
    ELSE IF IsInf(x) /\ IsInf(y) THEN (IF x[1] = y[1] THEN x ELSE NaN)
    ELSE IF IsInf(x) THEN x
    ELSE IF IsInf(y) THEN y
    ELSE AddBy(x, y, GCD(x[2], y[2]))

\* Arg leaves a value of exponent 0 as it is
Add(x, y) == AddR(Arg(x), Arg(y))

Sub(x, y) == Add(x, Neg(y))

\* the product of two finite values, cancelled crosswise by g and h
MulBy(x, y, g, h) ==
    <<(x[1] \div g) * (y[1] \div h), (x[2] \div h) * (y[2] \div g), 0>>

MulR(x, y) ==
    IF IsNaN(x) \/ IsNaN(y) THEN NaN
    ELSE IF IsInf(x) \/ IsInf(y)
         THEN (IF SignOf(x) * SignOf(y) = 0 THEN NaN
               ELSE <<SignOf(x) * SignOf(y), 0, 0>>)
    ELSE IF x[1] = 0 \/ y[1] = 0 THEN <<0, 1, 0>>
    ELSE MulBy(x, y, GCD(Abs(x[1]), y[2]), GCD(Abs(y[1]), x[2]))

Mul(x, y) == MulR(Arg(x), Arg(y))

DivR(x, y) ==
    IF IsNaN(x) \/ IsNaN(y) THEN NaN
    ELSE IF IsInf(x) THEN (IF IsInf(y) THEN NaN
                           ELSE <<x[1] * (IF y[1] < 0 THEN 0 - 1 ELSE 1), 0, 0>>)
    ELSE IF IsInf(y) THEN Zero
    ELSE IF y[1] = 0 THEN (IF x[1] = 0 THEN NaN ELSE <<Sgn(x[1]), 0, 0>>)
    ELSE MulR(x, <<Sgn(y[1]) * y[2], Abs(y[1]), 0>>)

Div(x, y) == DivR(Arg(x), Arg(y))

\* the order of the magnitudes of values with different decimal exponents:
\* every nonzero rational of the model lies strictly between 1e-10 and 1e12
MagKey(x) == Sgn(x[1]) * (IF x[3] < 0 THEN 1 ELSE IF x[3] = 0 THEN 2 ELSE 3)

InfKey(x) == IF IsInf(x) THEN 2 * x[1] ELSE 0

Lt(x, y) ==
    IF x[2] > 0 /\ y[2] > 0
    THEN (IF x[3] = y[3] THEN x[1] * y[2] < y[1] * x[2]
          ELSE MagKey(x) < MagKey(y))
    ELSE IF IsNaN(x) \/ IsNaN(y) THEN FALSE
    ELSE InfKey(x) < InfKey(y)

Gt(x, y) == Lt(y, x)

Le(x, y) == ~IsNaN(x) /\ ~IsNaN(y) /\ ~Lt(y, x)

Ge(x, y) == Le(y, x)

\* C's == on doubles (NaN equals nothing)
EqNum(x, y) == Le(x, y) /\ Le(y, x)

fabs(x) == <<Abs(x[1]), x[2], x[3]>>

ISqrt(n) == CHOOSE r \in 0..n : r * r <= n /\ (r + 1) * (r + 1) > n

sqrt(x) ==
    IF IsNaN(x) \/ x[1] < 0 THEN NaN
    ELSE IF IsInf(x) THEN x
    ELSE Rat(ISqrt(x[1] * x[2]), x[2])

\* the one element of a singleton set; Val({e(v) : v \in {x}}) is e(v) with v
\* the value of x, the way a statement uses the local assigned before it
Val(S) == CHOOSE v \in S : TRUE

(***************************************************************************)
(* Indices of the 8 doubles of a cell (the C enums, shifted by one)        *)
(***************************************************************************)
ddd == 1

tau == 2

Sx == 3

Sy == 4

Sz == 5

Bx == 6

By == 7

Bz == 8

rho == 1

pre == 2

vx == 3

vy == 4

vz == 5

\* the modes for selecting the strategy of the solver (the C enums)
RiemannSolver_HLL == 0

RiemannSolver_HLLC == 1

Reconstruct_PiecewiseConstant == 0

Reconstruct_PLM3Velocity == 1

Reconstruct_PLM4Velocity == 2

SlopeLimiter_Minmod == 0

SlopeLimiter_MonotizedCentral == 1

SlopeLimiter_HarmonicMean == 2

QuarticSolver_Exact == 0

QuarticSolver_Approx1 == 1

QuarticSolver_Approx2 == 2

QuarticSolver_None == 3

\* struct LibraryState lib_state = { ... }: the initial configuration
LibraryStateDefault ==
    [cons_to_prim_iter |-> 0,
     cons_to_prim_use_estimate |-> 0,
     cons_to_prim_verbose |-> 0,
     max_lambda |-> Zero,
     adiabatic_gamma |-> Rat(14, 10),
     plm_theta |-> Two,
     mode_riemann_solver |-> RiemannSolver_HLL,
     mode_reconstruct |-> Reconstruct_PLM4Velocity,
     mode_slope_limiter |-> SlopeLimiter_Minmod,
     mode_quartic_solver |-> QuarticSolver_Exact]

(***************************************************************************)
(* Inline arithmetic helpers                                               *)
(***************************************************************************)
\* (x>0)-(x<0): both comparisons are false for NaN
sign(x) == Num((IF Gt(x, Zero) THEN 1 ELSE 0) - (IF Lt(x, Zero) THEN 1 ELSE 0))

max2(a, b) == IF Gt(a, b) THEN a ELSE b

\* (a<b) ? a : b
min2(a, b) == IF Lt(a, b) THEN a ELSE b

max3(a, b, c) ==
    Val({IF Gt(ab, c) THEN ab ELSE c : ab \in {IF Gt(a, b) THEN a ELSE b}})

min3(a, b, c) ==
    Val({IF Lt(ab, c) THEN ab ELSE c : ab \in {IF Lt(a, b) THEN a ELSE b}})

\* B = A^-1 for a 2x2 matrix A = <<<<a11, a12>>, <<a21, a22>>>>
invert_2by2_matrix(A) ==
    Val({<< <<Div(A[2][2], det), Neg(Div(A[1][2], det))>>,
            <<Neg(Div(A[2][1], det)), Div(A[1][1], det)>> >> :
         det \in {Sub(Mul(A[1][1], A[2][2]), Mul(A[2][1], A[1][2]))}})

(***************************************************************************)
(* Slope limiters; ls is lib_state                                         *)
(***************************************************************************)
plm_minmod(ls, ul, u0, ur) ==
    Val({Mul(Mul(Mul(Rat(1, 4), fabs(Add(sign(a), sign(b)))),
                 Add(sign(a), sign(c))),
             min3(fabs(a), fabs(b), fabs(c))) :
         a \in {Mul(ls.plm_theta, Sub(u0, ul))},
         b \in {Mul(Half, Sub(ur, ul))},
         c \in {Mul(ls.plm_theta, Sub(ur, u0))}})

MC_limiter(ul, u0, ur) ==
    Val({Mul(Mul(Half, Add(sign(qp), sign(qm))),
             min3(Mul(Two, fabs(qp)), Mul(Two, fabs(qm)),
                  Mul(Half, Sub(ur, ul)))) :
         qp \in {Sub(ur, u0)}, qm \in {Sub(u0, ul)}})

harmonic_mean(ul, u0, ur) ==
    Val({Div(Mul(Two, max2(Zero, Mul(qp, qm))), Add(qp, qm)) :
         qp \in {Sub(ur, u0)}, qm \in {Sub(u0, ul)}})

(***************************************************************************)
(* Adiabatic equation of state                                             *)
(***************************************************************************)
eos_pre(ls, Rho, Sie) == Mul(Sie, Mul(Rho, Sub(ls.adiabatic_gamma, One)))

eos_sie(ls, Rho, Pre) == Div(Pre, Mul(Rho, Sub(ls.adiabatic_gamma, One)))

eos_cs2(ls, Rho, Pre) ==
    Div(Mul(ls.adiabatic_gamma, Pre),
        Add(Add(Pre, Rho), Mul(Rho, eos_sie(ls, Rho, Pre))))

(***************************************************************************)
(* prim_to_cons_point: the conserved state U of the primitive state P      *)
(***************************************************************************)
prim_to_cons_point(ls, P) ==
    \* the locals in the order of the statements, from the last line upwards
    Val({Val({Val({Val({Val({Val({Val({
        << D,
           Sub(Sub(Sub(rhW, p_), Mul(b0, b0)), D),
           Sub(Mul(rhW, P[vx]), Mul(b0, Div(Add(P[Bx], Mul(Mul(b0, W), P[vx])), W))),
           Sub(Mul(rhW, P[vy]), Mul(b0, Div(Add(P[By], Mul(Mul(b0, W), P[vy])), W))),
           Sub(Mul(rhW, P[vz]), Mul(b0, Div(Add(P[Bz], Mul(Mul(b0, W), P[vz])), W))),
           P[Bx], P[By], P[Bz] >> :
        D \in {Mul(P[rho], W)}, rhW \in {Mul(Mul(P[rho], h_), W2)}}) :
        h_ \in {Add(Add(One, Add(eos_sie(ls, P[rho], P[pre]),
                                 Div(Mul(Half, b2), P[rho]))),
                    Div(p_, P[rho]))}}) :
        p_ \in {Add(P[pre], Mul(Half, b2))}}) :
        b2 \in {Div(Add(Add(Add(Mul(P[Bx], P[Bx]), Mul(P[By], P[By])),
                            Mul(P[Bz], P[Bz])),
                        Mul(b0, b0)),
                    W2)}}) :
        b0 \in {Mul(W, Add(Add(Mul(P[Bx], P[vx]), Mul(P[By], P[vy])),
                           Mul(P[Bz], P[vz])))}}) :
        W  \in {sqrt(W2)}}) :
        W2 \in {Div(One, Sub(One, Add(Add(Mul(P[vx], P[vx]), Mul(P[vy], P[vy])),
                                      Mul(P[vz], P[vz]))))}})

(***************************************************************************)
(* rmhd_flux_and_eval.  dim is the global `dimension`.  q is what the      *)
(* quartic solver (new_QuarticEquation, solve_quartic_equation,            *)
(* solve_quartic_approx1/2: not part of rmhd.c) hands back for the         *)
(* coefficients A4..A0: q.r1..q.r4, q.nr12, q.nr34 and the return value    *)
(* q.nr of the exact solver, q.xm and q.xp the values the approximate      *)
(* solvers leave in *am and *ap.  ap0 and am0 are the values *ap and *am   *)
(* hold on entry (kept when no case of the switch assigns them).           *)
(***************************************************************************)
QuarticCoefficients(ls, dim, P) ==
    LET v2 == Add(Add(Mul(P[vx], P[vx]), Mul(P[vy], P[vy])), Mul(P[vz], P[vz]))
        B2 == Add(Add(Mul(P[Bx], P[Bx]), Mul(P[By], P[By])), Mul(P[Bz], P[Bz]))
        Bv == Add(Add(Mul(P[Bx], P[vx]), Mul(P[By], P[vy])), Mul(P[Bz], P[vz]))
        W  == Div(One, sqrt(Sub(One, v2)))
        W2 == Mul(W, W)
        b0 == Mul(W, Bv)
        b2 == Div(Add(B2, Mul(b0, b0)), W2)
        bx == Div(Add(P[Bx], Mul(Mul(b0, W), P[vx])), W)
        by == Div(Add(P[By], Mul(Mul(b0, W), P[vy])), W)
        bz == Div(Add(P[Bz], Mul(Mul(b0, W), P[vz])), W)
        e  == eos_sie(ls, P[rho], P[pre])
        h  == Add(Add(One, e), Div(P[pre], P[rho]))
        vi == CASE dim = 1 -> P[vx] [] dim = 2 -> P[vy] [] dim = 3 -> P[vz]
                [] OTHER -> Zero
        bi == CASE dim = 1 -> bx [] dim = 2 -> by [] dim = 3 -> bz
                [] OTHER -> Zero
        W4  == Mul(W2, W2)
        cs2 == eos_cs2(ls, P[rho], P[pre])
        V2  == Mul(vi, vi)
        V3  == Mul(vi, V2)
        V4  == Mul(vi, V3)
        K   == Mul(Mul(Mul(P[rho], h), Sub(Div(One, cs2), One)), W4)
        L   == Neg(Mul(Add(Mul(P[rho], h), Div(b2, cs2)), W2))
        b00 == Mul(b0, b0)
        b0i == Mul(Mul(Two, b0), bi)
        bii == Mul(bi, bi)
    IN  << Sub(Sub(K, L), b00),
           Add(Add(Mul(Mul(Num(0 - 4), K), vi), Mul(Mul(L, vi), Two)), b0i),
           Sub(Add(Add(Mul(Mul(Num(6), K), V2), Mul(L, Sub(One, V2))), b00), bii),
           Sub(Sub(Mul(Mul(Num(0 - 4), K), V3), Mul(Mul(L, vi), Two)), b0i),
           Add(Add(Mul(K, V4), Mul(L, V2)), bii) >>

rmhd_flux(ls, dim, U, P) ==
    \* the locals in the order of the statements, from the last line upwards
    Val({Val({Val({Val({
        \* the switch (dimension) that fills F
        CASE dim = 1 ->
               << Mul(U[ddd], P[vx]),
                  Add(Sub(Mul(U[tau], P[vx]), Div(Mul(b0, P[Bx]), W)), Mul(p_, P[vx])),
                  Add(Sub(Mul(U[Sx], P[vx]), Div(Mul(bx, P[Bx]), W)), p_),
                  Sub(Mul(U[Sy], P[vx]), Div(Mul(by, P[Bx]), W)),
                  Sub(Mul(U[Sz], P[vx]), Div(Mul(bz, P[Bx]), W)),
                  Zero,
                  Sub(Mul(P[vx], P[By]), Mul(P[vy], P[Bx])),
                  Sub(Mul(P[vx], P[Bz]), Mul(P[vz], P[Bx])) >>
          [] dim = 2 ->
               << Mul(U[ddd], P[vy]),
                  Add(Sub(Mul(U[tau], P[vy]), Div(Mul(b0, P[By]), W)), Mul(p_, P[vy])),
                  Sub(Mul(U[Sx], P[vy]), Div(Mul(bx, P[By]), W)),
                  Add(Sub(Mul(U[Sy], P[vy]), Div(Mul(by, P[By]), W)), p_),
                  Sub(Mul(U[Sz], P[vy]), Div(Mul(bz, P[By]), W)),
                  Sub(Mul(P[vy], P[Bx]), Mul(P[vx], P[By])),
                  Zero,
                  Sub(Mul(P[vy], P[Bz]), Mul(P[vz], P[By])) >>
          [] dim = 3 ->
               << Mul(U[ddd], P[vz]),
                  Add(Sub(Mul(U[tau], P[vz]), Div(Mul(b0, P[Bz]), W)), Mul(p_, P[vz])),
                  Sub(Mul(U[Sx], P[vz]), Div(Mul(bx, P[Bz]), W)),
                  Sub(Mul(U[Sy], P[vz]), Div(Mul(by, P[Bz]), W)),
                  Add(Sub(Mul(U[Sz], P[vz]), Div(Mul(bz, P[Bz]), W)), p_),
                  Sub(Mul(P[vz], P[Bx]), Mul(P[vx], P[Bz])),
                  Sub(Mul(P[vz], P[By]), Mul(P[vy], P[Bz])),
                  Zero >> :
        p_ \in {Add(P[pre], Mul(Half, b2))}}) :
        b2 \in {Div(Add(Add(Add(Mul(P[Bx], P[Bx]), Mul(P[By], P[By])),
                            Mul(P[Bz], P[Bz])),
                        Mul(b0, b0)),
                    W2)},
        bx \in {Div(Add(P[Bx], Mul(Mul(b0, W), P[vx])), W)},
        by \in {Div(Add(P[By], Mul(Mul(b0, W), P[vy])), W)},
        bz \in {Div(Add(P[Bz], Mul(Mul(b0, W), P[vz])), W)}}) :
        W2 \in {Mul(W, W)},
        b0 \in {Mul(W, Add(Add(Mul(P[Bx], P[vx]), Mul(P[By], P[vy])),
                           Mul(P[Bz], P[vz])))}}) :
        W  \in {Div(One, sqrt(Sub(One, Add(Add(Mul(P[vx], P[vx]), Mul(P[vy], P[vy])),
                                           Mul(P[vz], P[vz])))))}})

\* a fallback that replaces each bound on its own
rmhd_flux_and_eval_each(ls, dim, U, P, q, ap0, am0) ==
    Val({[F |-> rmhd_flux(ls, dim, U, P),
          ap |-> IF Gt(fabs(ap1), One) THEN One ELSE ap1,
          am |-> IF Gt(fabs(am1), One) THEN Neg(One) ELSE am1,
          ap1 |-> ap1,
          am1 |-> am1,
          ret |-> 0] :
         ap1 \in {CASE ls.mode_quartic_solver = QuarticSolver_Exact ->
                         IF q.nr = 2
                         THEN (IF q.nr12 = 2 THEN max2(q.r1, q.r2) ELSE max2(q.r3, q.r4))
                         ELSE max2(max2(q.r1, q.r2), max2(q.r3, q.r4))
                    [] ls.mode_quartic_solver = QuarticSolver_Approx1 -> q.xp
                    [] ls.mode_quartic_solver = QuarticSolver_Approx2 -> q.xp
                    [] ls.mode_quartic_solver = QuarticSolver_None -> One
                    [] OTHER -> ap0},
         am1 \in {CASE ls.mode_quartic_solver = QuarticSolver_Exact ->
                         IF q.nr = 2
                         THEN (IF q.nr12 = 2 THEN min2(q.r1, q.r2) ELSE min2(q.r3, q.r4))
                         ELSE min2(min2(q.r1, q.r2), min2(q.r3, q.r4))
                    [] ls.mode_quartic_solver = QuarticSolver_Approx1 -> q.xm
                    [] ls.mode_quartic_solver = QuarticSolver_Approx2 -> q.xm
                    [] ls.mode_quartic_solver = QuarticSolver_None -> Neg(One)
                    [] OTHER -> am0}})

rmhd_flux_and_eval(ls, dim, U, P, q, ap0, am0) ==
    Val({[F |-> rmhd_flux(ls, dim, U, P),
          ap |-> IF Gt(fabs(ap1), One) \/ Gt(fabs(am1), One) THEN One ELSE ap1,
          am |-> IF Gt(fabs(ap1), One) \/ Gt(fabs(am1), One) THEN Neg(One) ELSE am1,
          ap1 |-> ap1,
          am1 |-> am1,
          ret |-> 0] :
         ap1 \in {CASE ls.mode_quartic_solver = QuarticSolver_Exact ->
                         IF q.nr = 2
                         THEN (IF q.nr12 = 2 THEN max2(q.r1, q.r2) ELSE max2(q.r3, q.r4))
                         ELSE max2(max2(q.r1, q.r2), max2(q.r3, q.r4))
                    [] ls.mode_quartic_solver = QuarticSolver_Approx1 -> q.xp
                    [] ls.mode_quartic_solver = QuarticSolver_Approx2 -> q.xp
                    [] ls.mode_quartic_solver = QuarticSolver_None -> One
                    [] OTHER -> ap0},
         am1 \in {CASE ls.mode_quartic_solver = QuarticSolver_Exact ->
                         IF q.nr = 2
                         THEN (IF q.nr12 = 2 THEN min2(q.r1, q.r2) ELSE min2(q.r3, q.r4))
                         ELSE min2(min2(q.r1, q.r2), min2(q.r3, q.r4))
                    [] ls.mode_quartic_solver = QuarticSolver_Approx1 -> q.xm
                    [] ls.mode_quartic_solver = QuarticSolver_Approx2 -> q.xm
                    [] ls.mode_quartic_solver = QuarticSolver_None -> Neg(One)
                    [] OTHER -> am0}})

(***************************************************************************)
(* The program state: the globals and statics of rmhd.c, the heap, and     *)
(* the caller's output array                                               *)
(***************************************************************************)
VARIABLES
    libopstate,          \* "Alive" or "Dead"
    quiet,
    dimension,
    stride,              \* <<stride[0], stride[1], stride[2], stride[3]>>
    dx, dy, dz,
    cons_to_prim_last_W,
    slope_limiter,       \* "NULL" or the name of the limiter it points to
    lib_state,
    ptr,                 \* the seven static pointers: a block number, 0 = NULL
    PrimitiveArray,      \* the contents the pointers point to; << >> when
    FluxInterArray_x,    \* the block is not allocated
    FluxInterArray_y,
    FluxInterArray_z,
    lib_ux, lib_uy, lib_uz,
    heap,                \* the live malloc blocks, the blocks handed out so
                         \* far, and whether free() met a pointer not live
    L,                   \* the caller's output array of dUdt_Nd
    call,                \* the last call: its name, arguments and results
    crashed,             \* the process was ended by undefined behaviour
    budget,              \* calls made so far (bounds the runs of the model)
    newton               \* the frame of a cons_to_prim_point call in progress

globals == <<libopstate, quiet, dimension, stride, dx, dy, dz,
             cons_to_prim_last_W, slope_limiter, lib_state>>

buffers == <<PrimitiveArray, FluxInterArray_x, FluxInterArray_y,
             FluxInterArray_z, lib_ux, lib_uy, lib_uz>>

vars == <<globals, ptr, buffers, heap, L, call, crashed, budget, newton>>

BufferNames == {"PrimitiveArray", "FluxInterArray_x", "FluxInterArray_y",
                "FluxInterArray_z", "lib_ux", "lib_uy", "lib_uz"}

Ng == 2

(***************************************************************************)
(* Bounds and inputs of the model                                          *)
(***************************************************************************)
\* initialize may be called this many times in a run (each call takes 7 blocks)
MaxInit == 2

\* dUdt_Nd may be called this many times in a run
MaxDeriv == 1

\* point-level operations may be called this many times in a run
MaxPoint == 1

\* primitive states: static and unmagnetised (Scenario A of the tests),
\* static and magnetised, moving and magnetised
StateA == <<One, One, Zero, Zero, Zero, Zero, Zero, Zero>>

StateB == <<Two, Num(3), Zero, Zero, Zero, One, Two, Zero>>

StateM == <<One, Rat(2, 7), Rat(3, 5), Zero, Zero, Zero, One, Zero>>

\* grids <<Nx, Ny, Nz>> handed to initialize: in a session, and in the
\* sessions that start on a grid
Shapes == {<<6, 1, 1>>}

GridShapes == {<<6, 1, 1>>, <<5, 5, 1>>, <<3, 3, 3>>}

NCells(shape) == shape[1] * shape[2] * shape[3]

\* primitive fields on a grid: uniform, or a step along x
FieldNames == {"A", "AB", "M"}

\* the fields handed to initialize as the first guess
GuessNames == {"A", "M"}

PrimField(shape, name) ==
    [c \in 0..(NCells(shape) - 1) |->
        CASE name = "A" -> StateA
          [] name = "B" -> StateB
          [] name = "M" -> StateM
          [] name = "AB" ->
                IF 2 * (c \div (shape[2] * shape[3])) < shape[1]
                THEN StateA ELSE StateB]

\* the values an uninitialised double may hold
Indeterminate == {Num(7)}

\* configurations handed to set_state
Config(est, recon, limiter, riemann, quartic) ==
    [LibraryStateDefault EXCEPT
        !.cons_to_prim_use_estimate = est,
        !.mode_reconstruct = recon,
        !.mode_slope_limiter = limiter,
        !.mode_riemann_solver = riemann,
        !.mode_quartic_solver = quartic]

Configs ==
    { Config(0, Reconstruct_PLM4Velocity, SlopeLimiter_Minmod,
             RiemannSolver_HLL, QuarticSolver_Exact),
      Config(0, Reconstruct_PLM3Velocity, SlopeLimiter_MonotizedCentral,
             RiemannSolver_HLL, QuarticSolver_Approx1),
      Config(1, Reconstruct_PLM3Velocity, SlopeLimiter_HarmonicMean,
             RiemannSolver_HLL, QuarticSolver_None),
      Config(0, Reconstruct_PiecewiseConstant, 7,
             RiemannSolver_HLLC, QuarticSolver_Approx2) }

(***************************************************************************)
(* The state after program start: the initialisers of the globals; the     *)
(* globals and statics without one are zero                                *)
(***************************************************************************)
Init ==
    /\ libopstate = "Dead"
    /\ quiet = 0
    /\ dimension = 1
    /\ stride = <<0, 0, 0, 0>>
    /\ dx = Zero
    /\ dy = Zero
    /\ dz = Zero
    /\ cons_to_prim_last_W = Zero
    /\ slope_limiter = "NULL"
    /\ lib_state = LibraryStateDefault
    /\ ptr = [b \in BufferNames |-> 0]
    /\ PrimitiveArray = << >>
    /\ FluxInterArray_x = << >>
    /\ FluxInterArray_y = << >>
    /\ FluxInterArray_z = << >>
    /\ lib_ux = << >>
    /\ lib_uy = << >>
    /\ lib_uz = << >>
    /\ heap = [live |-> {}, next |-> 1, fault |-> FALSE]
    /\ budget = [init |-> 0, deriv |-> 0, point |-> 0]
    /\ L = << >>
    /\ call = [op |-> "none"]
    /\ crashed = FALSE
    /\ newton = [pc |-> "idle"]

(***************************************************************************)
(* set_state, get_state                                                    *)
(***************************************************************************)
LimiterOf(mode) ==
    CASE mode = SlopeLimiter_Minmod -> "plm_minmod"
      [] mode = SlopeLimiter_MonotizedCentral -> "MC_limiter"
      [] mode = SlopeLimiter_HarmonicMean -> "harmonic_mean"
      [] OTHER -> "plm_minmod"

set_state(state) ==
    /\ ~crashed
    /\ lib_state' = state
    /\ slope_limiter' = LimiterOf(state.mode_slope_limiter)
    /\ call' = [op |-> "set_state", ret |-> 0]
    /\ UNCHANGED <<libopstate, quiet, dimension, stride, dx, dy, dz,
                   cons_to_prim_last_W, ptr, buffers, heap, L, crashed,
                   budget, newton>>

get_state ==
    /\ ~crashed
    /\ call' = [op |-> "get_state", ret |-> lib_state]
    /\ UNCHANGED <<globals, ptr, buffers, heap, L, crashed, budget, newton>>

(***************************************************************************)
(* initialize, finalize                                                    *)
(***************************************************************************)
\* malloc of the seven buffers, in the order of the code
MallocOrder == <<"PrimitiveArray", "FluxInterArray_x", "FluxInterArray_y",
                 "FluxInterArray_z", "lib_ux", "lib_uy", "lib_uz">>

NewBlock(b) == heap.next + (CHOOSE k \in 1..7 : MallocOrder[k] = b) - 1

initialize(P, Nx, Ny, Nz, Lx, Ly, Lz, q, junk) ==
    LET N == Nx * Ny * Nz
    IN  /\ ~crashed
        /\ budget.init < MaxInit
        /\ budget' = [budget EXCEPT !.init = @ + 1]
        /\ quiet' = q
        /\ libopstate' = "Alive"
        /\ stride' = <<Nx * Ny * Nz * 8, Ny * Nz * 8, Nz * 8, 8>>
        /\ dimension' = 1
        /\ dx' = Div(Lx, Num(Nx - 2 * Ng))
        /\ dy' = Div(Ly, Num(Ny - 2 * Ng))
        /\ dz' = Div(Lz, Num(Nz - 2 * Ng))
        /\ ptr' = [b \in BufferNames |-> NewBlock(b)]
        /\ heap' = [heap EXCEPT !.live = @ \cup {NewBlock(b) : b \in BufferNames},
                                !.next = @ + 7]
        /\ PrimitiveArray' = P
        /\ FluxInterArray_x' = [c \in 0..(N - 1) |-> [k \in 1..8 |-> junk]]
        /\ FluxInterArray_y' = [c \in 0..(N - 1) |-> [k \in 1..8 |-> junk]]
        /\ FluxInterArray_z' = [c \in 0..(N - 1) |-> [k \in 1..8 |-> junk]]
        /\ lib_ux' = [c \in 0..(N - 1) |-> junk]
        /\ lib_uy' = [c \in 0..(N - 1) |-> junk]
        /\ lib_uz' = [c \in 0..(N - 1) |-> junk]
        /\ call' = [op |-> "initialize", ret |-> 0]
        /\ UNCHANGED <<cons_to_prim_last_W, slope_limiter, lib_state, L,
                       crashed, newton>>

\* free(p) for each of the seven pointers: free(NULL) does nothing, a live
\* block is released, any other pointer is undefined behaviour
FreedLive == heap.live \ {ptr[b] : b \in BufferNames}

BadFree == \E b \in BufferNames : ptr[b] # 0 /\ ptr[b] \notin heap.live

finalize ==
    /\ ~crashed
    /\ libopstate' = "Dead"
    /\ heap' = [heap EXCEPT !.live = FreedLive, !.fault = @ \/ BadFree]
    /\ PrimitiveArray' = << >>
    /\ FluxInterArray_x' = << >>
    /\ FluxInterArray_y' = << >>
    /\ FluxInterArray_z' = << >>
    /\ lib_ux' = << >>
    /\ lib_uy' = << >>
    /\ lib_uz' = << >>
    /\ call' = [op |-> "finalize", ret |-> 0]
    \* freeing a block twice: the allocator aborts the process, or goes on
    /\ crashed' \in (IF BadFree THEN {TRUE, FALSE} ELSE {FALSE})
    /\ UNCHANGED <<quiet, dimension, stride, dx, dy, dz, cons_to_prim_last_W,
                   slope_limiter, lib_state, ptr, L, budget, newton>>

(***************************************************************************)
(* cons_to_prim_point: the Newton iteration for the unknowns Z and W.      *)
(* A frame fr holds the locals of a call in progress.                      *)
(***************************************************************************)
PRES_FLOOR == Pow10(1, 0 - 10)

ERROR_TOLR == Rat(1, 1000000)

NEWTON_MAX_ITER == 25

bigZ == Pow10(1, 20)

bigW == Pow10(1, 12)

smlZ == Zero

smlW == One

\* the quantities known from the conserved state
NewtonKnown(ls, U) ==
    [gamf |-> Div(Sub(ls.adiabatic_gamma, One), ls.adiabatic_gamma),
     D    |-> U[ddd],
     Tau  |-> U[tau],
     S2   |-> Add(Add(Mul(U[Sx], U[Sx]), Mul(U[Sy], U[Sy])), Mul(U[Sz], U[Sz])),
     B2   |-> Add(Add(Mul(U[Bx], U[Bx]), Mul(U[By], U[By])), Mul(U[Bz], U[Bz])),
     BS   |-> Add(Add(Mul(U[Bx], U[Sx]), Mul(U[By], U[Sy])), Mul(U[Bz], U[Sz]))]

\* the starting values of W and Z: estimated from the conserved state, or
\* guessed from the primitive state P the caller hands in
NewtonStartW(ls, U, P) ==
    IF ls.cons_to_prim_use_estimate # 0
    THEN Val({sqrt(Add(Div(k.S2, Mul(k.D, k.D)), One)) : k \in {NewtonKnown(ls, U)}})
    ELSE Div(One, sqrt(Sub(One, Add(Add(Mul(P[vx], P[vx]), Mul(P[vy], P[vy])),
                                    Mul(P[vz], P[vz])))))

\* Z for the starting value W (W is W_guess when nothing is estimated)
NewtonStartZ(ls, U, P, W) ==
    IF ls.cons_to_prim_use_estimate # 0
    THEN Mul(U[ddd], W)
    ELSE Mul(Mul(Mul(P[rho],
                     Add(Add(One, eos_sie(ls, P[rho], P[pre])), Div(P[pre], P[rho]))),
                 W),
             W)

NewtonEnter(ls, U, P) ==
    Val({[pc |-> "loop",
          use_pres_floor |-> 0,
          soln_found |-> 0,
          n_iter |-> 0,
          W |-> W,
          Z |-> NewtonStartZ(ls, U, P, W)] :
         W \in {NewtonStartW(ls, U, P)}})

\* a pressure that is computed from Z and W in the floor phase too
NewtonPre_unfloored(ls, U, fr) ==
    Val({Mul(Mul(Div(k.D, fr.W), Sub(Div(fr.Z, Mul(k.D, fr.W)), One)), k.gamf) :
         k \in {NewtonKnown(ls, U)}})

\* the pressure implied by Z and W, or the floor
NewtonPre(ls, U, fr) ==
    IF fr.use_pres_floor # 0 THEN PRES_FLOOR
    ELSE Val({Mul(Mul(Div(k.D, fr.W), Sub(Div(fr.Z, Mul(k.D, fr.W)), One)), k.gamf) :
              k \in {NewtonKnown(ls, U)}})

\* the Newton update <<dZ, dW>>: the residuals f1, f2 (eqns 84, 85), the
\* Jacobian and its inverse
NewtonUpdate(ls, U, fr) ==
    \* the locals in the order of the statements, from the last line upwards
    Val({Val({Val({Val({
        \* dZ = G[0][0]*f1 + G[0][1]*f2,  dW = G[1][0]*f1 + G[1][1]*f2
        << Add(Mul(G[1][1], f[1]), Mul(G[1][2], f[2])),
           Add(Mul(G[2][1], f[1]), Mul(G[2][2], f[2])) >> :
        \* G = J^-1 with J = {{df1dZ, df1dW}, {df2dZ, df2dW}}
        G \in {invert_2by2_matrix(
                  << << Div(Mul(Mul(Two, ZB), Add(Mul(BS2, W2), Mul(Sub(W2, One), Z3))),
                           Mul(W2, Z3)),
                        Div(Mul(Mul(Two, ZB), ZB), W3) >>,
                     << Sub(Add(One, Div(BS2, Z3)), Div(k.gamf, W2)),
                        Add(Div(k.B2, W3),
                            Mul(Div(Sub(Mul(Two, fr.Z), Mul(k.D, fr.W)), W3),
                                k.gamf)) >> >>)},
        \* <<f1, f2>>
        f \in {<< Sub(Add(Neg(k.S2), Div(Mul(Mul(ZB, ZB), Sub(W2, One)), W2)),
                      Div(Mul(Add(Mul(Two, fr.Z), k.B2), BS2), Z2)),
                  Sub(Sub(Sub(Sub(Add(Add(Neg(k.Tau), fr.Z), k.B2), Pre),
                              Div(Mul(Half, k.B2), W2)),
                          Div(Mul(Half, BS2), Z2)),
                      k.D) >>}}) :
        Z3 \in {Mul(fr.Z, Z2)}, W3 \in {Mul(fr.W, W2)},
        BS2 \in {Mul(k.BS, k.BS)}, ZB \in {Add(fr.Z, k.B2)}}) :
        Z2 \in {Mul(fr.Z, fr.Z)}, W2 \in {Mul(fr.W, fr.W)},
        Pre \in {NewtonPre(ls, U, fr)}}) :
        k \in {NewtonKnown(ls, U)}})

\* one pass of the body of while (!soln_found) with the update d = <<dZ, dW>>
NewtonIterate(ls, U, P, fr, d) ==
    \* start holds the values W and Z are reset to; f0 is the frame after
    \* Z = Z_new; W = W_new, f1 after the convergence test, f3 after the test
    \* of n_iter++
    Val({Val({Val({Val({
        IF f3.pc = "loop" /\ f3.soln_found # 0 THEN [f3 EXCEPT !.pc = "found"]
        ELSE f3 :
        \* if (n_iter++ == NEWTON_MAX_ITER)
        f3 \in {IF f1.n_iter = NEWTON_MAX_ITER
                THEN (IF Lt(Pre, PRES_FLOOR)
                      THEN [f1 EXCEPT !.n_iter = 0, !.use_pres_floor = 1,
                                      !.W = start.W, !.Z = start.Z]
                      ELSE [f1 EXCEPT !.n_iter = @ + 1, !.pc = "return 1"])
                ELSE [f1 EXCEPT !.n_iter = @ + 1]}}) :
        \* if (fabs(dZ/Z) + fabs(dW/W) < ERROR_TOLR)
        f1 \in {IF Lt(Add(fabs(Div(d[1], f0.Z)), fabs(Div(d[2], f0.W))), ERROR_TOLR)
                THEN (IF Ge(Pre, PRES_FLOOR) THEN [f0 EXCEPT !.soln_found = 1]
                      ELSE [f0 EXCEPT !.n_iter = 0, !.use_pres_floor = 1,
                                      !.W = start.W, !.Z = start.Z])
                ELSE f0}}) :
        f0 \in {[fr EXCEPT
                   !.Z = Val({IF Lt(Z_new, bigZ) THEN Z_new ELSE fr.Z :
                              Z_new \in {Val({IF Gt(z, smlZ) THEN z ELSE Neg(z) :
                                              z \in {Sub(fr.Z, d[1])}})}}),
                   !.W = Val({IF Lt(W_new, bigW) THEN W_new ELSE bigW :
                              W_new \in {Val({IF Gt(w, smlW) THEN w ELSE smlW :
                                              w \in {Sub(fr.W, d[2])}})}})]}}) :
        Pre \in {NewtonPre(ls, U, fr)}, start \in {NewtonEnter(ls, U, P)}})

\* the statements after the loop: the primitive state written to P
NewtonResult(ls, U, fr) ==
    Val({Val({<< Div(k.D, fr.W),
                 IF fr.use_pres_floor # 0 THEN PRES_FLOOR
                 ELSE Mul(Mul(Div(k.D, fr.W), Sub(Div(fr.Z, Mul(k.D, fr.W)), One)),
                          k.gamf),
                 Div(Add(U[Sx], Div(Mul(b0, U[Bx]), fr.W)), ZB),
                 Div(Add(U[Sy], Div(Mul(b0, U[By]), fr.W)), ZB),
                 Div(Add(U[Sz], Div(Mul(b0, U[Bz]), fr.W)), ZB),
                 U[Bx], U[By], U[Bz] >> :
              b0 \in {Div(Mul(k.BS, fr.W), fr.Z)}, ZB \in {Add(fr.Z, k.B2)}}) :
         k \in {NewtonKnown(ls, U)}})

\* the whole call, each update computed from the residuals: ret, the state
\* left in P, and what is added to lib_state.cons_to_prim_iter and stored in
\* cons_to_prim_last_W (W0 is its value on entry)
RECURSIVE NewtonRun(_, _, _, _)
NewtonRun(ls, U, P, fr) ==
    IF fr.pc # "loop" THEN fr
    ELSE Val({NewtonRun(ls, U, P, f) :
              f \in {Val({NewtonIterate(ls, U, P, fr, d) :
                          d \in {NewtonUpdate(ls, U, fr)}})}})

\* a return that stores the last iterate even when the loop gave up
NewtonReturn_storing(ls, U, P, W0, fr) ==
    [ret |-> IF fr.pc = "found" THEN 0 ELSE 1, P |-> NewtonResult(ls, U, fr),
     n_iter |-> fr.n_iter, W |-> fr.W]

NewtonReturn(ls, U, P, W0, fr) ==
    IF fr.pc = "found"
    THEN [ret |-> 0, P |-> NewtonResult(ls, U, fr), n_iter |-> fr.n_iter, W |-> fr.W]
    ELSE [ret |-> 1, P |-> P, n_iter |-> 0, W |-> W0]

cons_to_prim_point(ls, U, P, W0) ==
    Val({NewtonReturn(ls, U, P, W0, fr) :
         fr \in {Val({NewtonRun(ls, U, P, f0) : f0 \in {NewtonEnter(ls, U, P)}})}})

(***************************************************************************)
(* hll_flux.  U0 and F0 are what the caller's U and F hold on entry; q.l   *)
(* and q.r are what the quartic solver hands back for the left and the     *)
(* right state; junk is what the uninitialised locals epl, epr, eml, emr   *)
(* hold.  The result carries the new lib_state.max_lambda.                 *)
(***************************************************************************)
\* the selection that hands out the right state from s = ap on
hll_select_closed(s, am, ap, left, middle, right, before) ==
    IF Le(s, am) THEN left
    ELSE IF Lt(am, s) /\ Lt(s, ap) THEN middle
    ELSE IF Le(ap, s) THEN right
    ELSE before

hll_select(s, am, ap, left, middle, right, before) ==
    IF Le(s, am) THEN left
    ELSE IF Lt(am, s) /\ Le(s, ap) THEN middle
    ELSE IF Lt(ap, s) THEN right
    ELSE before

\* a diagnostic that keeps the speed of the last interface
hll_max_lambda_last(ls, ap, am) ==
    IF Lt(fabs(am), fabs(ap)) THEN fabs(ap) ELSE fabs(am)

\* lib_state.max_lambda after `if (lib_state.max_lambda < ml) ... = ml`
hll_max_lambda(ls, ap, am) ==
    Val({IF Lt(ls.max_lambda, ml) THEN ml ELSE ls.max_lambda :
         ml \in {IF Lt(fabs(am), fabs(ap)) THEN fabs(ap) ELSE fabs(am)}})

hll_flux(ls, dim, pl, pr, U0, F0, s, q, junk) ==
    \* the locals in the order of the statements, from the last line upwards;
    \* u and e hold the two calls of prim_to_cons_point and of
    \* rmhd_flux_and_eval, for the left and for the right state
    Val({Val({Val({Val({
        [U |-> hll_select(s, am, ap, u.l, U_hll, u.r, U0),
         F |-> hll_select(s, am, ap, e.l.F, F_hll, e.r.F, F0),
         max_lambda |-> hll_max_lambda(ls, ap, am),
         ap |-> ap,
         am |-> am,
         Ul |-> u.l, Ur |-> u.r, Fl |-> e.l.F, Fr |-> e.r.F,
         U_hll |-> U_hll, F_hll |-> F_hll,
         ret |-> 0] :
        U_hll \in {[i \in 1..8 |->
                      Div(Add(Sub(Mul(ap, u.r[i]), Mul(am, u.l[i])),
                              Sub(e.l.F[i], e.r.F[i])),
                          Sub(ap, am))]},
        F_hll \in {[i \in 1..8 |->
                      Div(Add(Sub(Mul(ap, e.l.F[i]), Mul(am, e.r.F[i])),
                              Mul(Mul(ap, am), Sub(u.r[i], u.l[i]))),
                          Sub(ap, am))]}}) :
        \* epl = e.l.ap, epr = e.r.ap, eml = e.l.am, emr = e.r.am
        ap \in {IF Gt(e.l.ap, e.r.ap) THEN e.l.ap ELSE e.r.ap},
        am \in {IF Lt(e.l.am, e.r.am) THEN e.l.am ELSE e.r.am}}) :
        e \in {[side \in {"l", "r"} |->
                  rmhd_flux_and_eval(ls, dim, u[side], IF side = "l" THEN pl ELSE pr,
                                     q[side], junk, junk)]}}) :
        u \in {[side \in {"l", "r"} |->
                  prim_to_cons_point(ls, IF side = "l" THEN pl ELSE pr)]}})

(***************************************************************************)
(* Reconstruction.  Arrays are indexed by cell; S is stride[dimension] in  *)
(* cells; c is the cell P0 points to; lim is what slope_limiter points to. *)
(***************************************************************************)
\* slope_limiter(ul, u0, ur): the call through the function pointer
slope_limiter_call(ls, lim, ul, u0, ur) ==
    CASE lim = "plm_minmod" -> plm_minmod(ls, ul, u0, ur)
      [] lim = "MC_limiter" -> MC_limiter(ul, u0, ur)
      [] lim = "harmonic_mean" -> harmonic_mean(ul, u0, ur)

reconstruct_use_3vel(ls, lim, S, P, c) ==
    LET T == 2 * S
    IN  [Pr |-> [i \in 1..8 |->
                    Sub(P[c + S][i],
                        Mul(Half, slope_limiter_call(ls, lim, P[c][i], P[c + S][i],
                                                     P[c + T][i])))],
         Pl |-> [i \in 1..8 |->
                    Add(P[c][i],
                        Mul(Half, slope_limiter_call(ls, lim, P[c - S][i], P[c][i],
                                                     P[c + S][i])))]]

reconstruct_use_4vel(ls, lim, S, P, ux, uy, uz, c) ==
    \* Pi holds the components the loop assigns, u holds ux_r, uy_r, uz_r
    \* (ux_l, uy_l, uz_l), W is Wr (Wl); U = S and V = T = 2 * S in cells
    [Pr |-> Val({Val({
                <<Pi[rho], Pi[pre], Div(u[1], W), Div(u[2], W), Div(u[3], W),
                  Pi[Bx], Pi[By], Pi[Bz]>> :
                W \in {sqrt(Add(Add(Add(One, Mul(u[1], u[1])), Mul(u[2], u[2])),
                               Mul(u[3], u[3])))}}) :
                Pi \in {[i \in {rho, pre, Bx, By, Bz} |->
                           Sub(P[c + S][i],
                               Mul(Half, plm_minmod(ls, P[c][i], P[c + S][i],
                                                    P[c + 2 * S][i])))]},
                u \in {[k \in 1..3 |->
                          Sub(<<ux, uy, uz>>[k][c + S],
                              Mul(Half, slope_limiter_call(ls, lim,
                                            <<ux, uy, uz>>[k][c],
                                            <<ux, uy, uz>>[k][c + S],
                                            <<ux, uy, uz>>[k][c + 2 * S])))]}}),
     Pl |-> Val({Val({
                <<Pi[rho], Pi[pre], Div(u[1], W), Div(u[2], W), Div(u[3], W),
                  Pi[Bx], Pi[By], Pi[Bz]>> :
                W \in {sqrt(Add(Add(Add(One, Mul(u[1], u[1])), Mul(u[2], u[2])),
                               Mul(u[3], u[3])))}}) :
                Pi \in {[i \in {rho, pre, Bx, By, Bz} |->
                           Add(P[c][i],
                               Mul(Half, plm_minmod(ls, P[c - S][i], P[c][i],
                                                    P[c + S][i])))]},
                u \in {[k \in 1..3 |->
                          Add(<<ux, uy, uz>>[k][c],
                              Mul(Half, slope_limiter_call(ls, lim,
                                            <<ux, uy, uz>>[k][c - S],
                                            <<ux, uy, uz>>[k][c],
                                            <<ux, uy, uz>>[k][c + S])))]}})]

(***************************************************************************)
(* hllc_flux is not part of rmhd.c: what it leaves in F[i..i+7] is the     *)
(* value h handed in                                                       *)
(***************************************************************************)
hllc_flux(ls, dim, pl, pr, U0, F0, s, h) ==
    [U |-> U0, F |-> h, max_lambda |-> ls.max_lambda, ret |-> 0]

(***************************************************************************)
(* Fiph: the intercell fluxes along `dim` of the primitive array P.        *)
(* strd is the global stride, F0 the flux array on entry; the result is    *)
(* the flux array on return and the new lib_state.max_lambda.              *)
(***************************************************************************)
ZeroCell == <<Zero, Zero, Zero, Zero, Zero, Zero, Zero, Zero>>

\* the largest of a set of doubles under <
MaxOf(S) == CHOOSE m \in S : \A x \in S : ~Lt(m, x)

\* the cells the loop for (i=S; i<stride[0]-S*2; i+=8) visits
FiphCells(strd, dim) ==
    (strd[dim + 1] \div 8) .. ((strd[1] \div 8) - 2 * (strd[dim + 1] \div 8) - 1)

\* the loop body calls through slope_limiter
FiphLimits(ls) == ls.mode_reconstruct # Reconstruct_PiecewiseConstant

Fiph(ls, lim, dim, strd, P, ux, uy, uz, F0, q, junk, h) ==
    LET N == strd[1] \div 8
        S == strd[dim + 1] \div 8
        U_star == [i \in 1..8 |-> junk]
    IN  Val({[F |-> [c \in 0..(N - 1) |->
                       IF c < S \/ c >= N - 2 * S THEN ZeroCell ELSE fl[c].F],
              max_lambda |->
                  MaxOf({ls.max_lambda} \cup {fl[c].max_lambda : c \in DOMAIN fl}),
              ret |-> 0] :
             \* the body of the loop at cell c: e holds Pl and Pr
             fl \in {[c \in FiphCells(strd, dim) |->
                 Val({\* switch (lib_state.mode_riemann_solver): hll_flux is the
                      \* case RiemannSolver_HLL and the default
                      IF ls.mode_riemann_solver = RiemannSolver_HLLC
                      THEN hllc_flux(ls, dim, e.Pl, e.Pr, U_star, F0[c], Zero, h)
                      ELSE hll_flux(ls, dim, e.Pl, e.Pr, U_star, F0[c], Zero, q, junk) :
                      \* switch (lib_state.mode_reconstruct): reconstruct_use_3vel
                      \* is the case Reconstruct_PLM3Velocity and the default
                      e \in {IF ls.mode_reconstruct = Reconstruct_PiecewiseConstant
                             THEN [Pl |-> P[c], Pr |-> P[c + S]]
                             ELSE IF ls.mode_reconstruct = Reconstruct_PLM4Velocity
                             THEN reconstruct_use_4vel(ls, lim, S, P, ux, uy, uz, c)
                             ELSE reconstruct_use_3vel(ls, lim, S, P, c)}})]}})

(***************************************************************************)
(* constraint_transport_2d, constraint_transport_3d.  Fx, Fy, Fz are the   *)
(* flux arrays on entry, the result the arrays on return; junk is what the *)
(* entries of the malloc'ed scratch arrays hold that the first loop does   *)
(* not assign.                                                             *)
(***************************************************************************)
\* the cells the loop for (i=sx; i<stride[0]-sx; i+=8) visits
TransportCells(strd) == (strd[2] \div 8) .. ((strd[1] \div 8) - (strd[2] \div 8) - 1)

\* (2*F[0]+F[a]+F[-a]-G[0]-G[b]-G[-a]-G[b-a])*0.125 at cell c, for the
\* component f of F and the component g of G
ct_average(F, f, G, g, c, a, b) ==
    Mul(Sub(Sub(Sub(Sub(Add(Add(Mul(Two, F[c][f]), F[c + a][f]), F[c - a][f]),
                        G[c][g]),
                    G[c + b][g]),
                G[c - a][g]),
            G[c + b - a][g]),
        Rat(1, 8))

\* a transport whose second loop stores in the cells of the first loop only
constraint_transport_2d_inner(strd, Fx, Fy, junk) ==
    LET N  == strd[1] \div 8
        sx == strd[2] \div 8
        sy == strd[3] \div 8
        inner(c) == c \in TransportCells(strd)
    IN  [Fx |-> [c \in 0..(N - 1) |->
                    IF inner(c)
                    THEN [Fx[c] EXCEPT ![Bx] = Zero,
                                       ![By] = ct_average(Fx, By, Fy, Bx, c, sy, sx)]
                    ELSE Fx[c]],
         Fy |-> [c \in 0..(N - 1) |->
                    IF inner(c)
                    THEN [Fy[c] EXCEPT ![Bx] = ct_average(Fy, Bx, Fx, By, c, sx, sy),
                                       ![By] = Zero]
                    ELSE Fy[c]],
         ret |-> 0]

constraint_transport_2d(strd, Fx, Fy, junk) ==
    LET N  == strd[1] \div 8
        sx == strd[2] \div 8
        sy == strd[3] \div 8
        scratch(F, f, G, g, a, b) ==
            [c \in 0..(N - 1) |->
                IF c \in TransportCells(strd) THEN ct_average(F, f, G, g, c, a, b)
                ELSE junk]
        store(FxBy, FyBx) ==
            [Fx |-> [c \in 0..(N - 1) |-> [Fx[c] EXCEPT ![Bx] = Zero, ![By] = FxBy[c]]],
             Fy |-> [c \in 0..(N - 1) |-> [Fy[c] EXCEPT ![Bx] = FyBx[c], ![By] = Zero]],
             ret |-> 0]
    IN  Val({store(FxBy, FyBx) : FxBy \in {scratch(Fx, By, Fy, Bx, sy, sx)},
                                 FyBx \in {scratch(Fy, Bx, Fx, By, sx, sy)}})

constraint_transport_3d(strd, Fx, Fy, Fz, junk) ==
    LET N  == strd[1] \div 8
        sx == strd[2] \div 8
        sy == strd[3] \div 8
        sz == strd[4] \div 8
        scratch(F, f, G, g, a, b) ==
            [c \in 0..(N - 1) |->
                IF c \in TransportCells(strd) THEN ct_average(F, f, G, g, c, a, b)
                ELSE junk]
        store(FxBy, FyBx, FyBz, FzBy, FzBx, FxBz) ==
            [Fx |-> [c \in 0..(N - 1) |->
                        [Fx[c] EXCEPT ![Bx] = Zero, ![By] = FxBy[c], ![Bz] = FxBz[c]]],
             Fy |-> [c \in 0..(N - 1) |->
                        [Fy[c] EXCEPT ![Bx] = FyBx[c], ![By] = Zero, ![Bz] = FyBz[c]]],
             Fz |-> [c \in 0..(N - 1) |->
                        [Fz[c] EXCEPT ![Bx] = FzBx[c], ![By] = FzBy[c], ![Bz] = Zero]],
             ret |-> 0]
    IN  Val({store(FxBy, FyBx, FyBz, FzBy, FzBx, FxBz) :
             FxBy \in {scratch(Fx, By, Fy, Bx, sy, sx)},
             FyBx \in {scratch(Fy, Bx, Fx, By, sx, sy)},
             FyBz \in {scratch(Fy, Bz, Fz, By, sz, sy)},
             FzBy \in {scratch(Fz, By, Fy, Bz, sy, sz)},
             FzBx \in {scratch(Fz, Bx, Fx, Bz, sx, sz)},
             FxBz \in {scratch(Fx, Bz, Fz, Bx, sz, sx)}})

(***************************************************************************)
(* cons_to_prim_array, prim_to_cons_array.  alive is libopstate = Alive,   *)
(* own tells whether P is PrimitiveArray itself, Prim is PrimitiveArray,   *)
(* W0 is cons_to_prim_last_W on entry and ux, uy, uz are lib_ux, lib_uy,   *)
(* lib_uz on entry.  The result carries what the call leaves in P, in      *)
(* cons_to_prim_last_W and in lib_ux, lib_uy, lib_uz, and what it adds to  *)
(* lib_state.cons_to_prim_iter.                                            *)
(***************************************************************************)
cons_to_prim_array(ls, alive, U, P, own, Prim, N, W0, ux, uy, uz) ==
    LET guess == IF alive /\ ~own THEN Prim ELSE P
        caches == ls.mode_reconstruct = Reconstruct_PLM4Velocity /\ alive
        done(res, c) == {k \in 0..c : res[k].ret = 0}
        \* cons_to_prim_last_W after the cells 0..c
        last_W(res, c) ==
            IF done(res, c) = {} THEN W0
            ELSE res[CHOOSE k \in done(res, c) : \A j \in done(res, c) : j <= k].W
        u(res, old, c, v) ==
            IF caches /\ c \in 0..(N - 1) THEN Mul(last_W(res, c), res[c].P[v])
            ELSE old[c]
        out(res) ==
            [failures |-> Cardinality({c \in 0..(N - 1) : res[c].ret # 0}),
             P  |-> [c \in DOMAIN guess |-> IF c \in 0..(N - 1) THEN res[c].P ELSE guess[c]],
             iter |-> Cardinality({e \in (0..(N - 1)) \X (1..(NEWTON_MAX_ITER + 1)) :
                                     e[2] <= res[e[1]].n_iter}),
             last_W |-> last_W(res, N - 1),
             ux |-> [c \in DOMAIN ux |-> u(res, ux, c, vx)],
             uy |-> [c \in DOMAIN uy |-> u(res, uy, c, vy)],
             uz |-> [c \in DOMAIN uz |-> u(res, uz, c, vz)]]
    IN  Val({out(res) :
             res \in {[c \in 0..(N - 1) |-> cons_to_prim_point(ls, U[c], guess[c], W0)]}})

prim_to_cons_array(ls, P, N) == [c \in 0..(N - 1) |-> prim_to_cons_point(ls, P[c])]

(***************************************************************************)
(* dUdt_1d, dUdt_2d, dUdt_3d.  U is the caller's conserved array, L0 what  *)
(* the caller's output array holds on entry; q, junk and h are what the    *)
(* quartic solver, uninitialised memory and hllc_flux supply.              *)
(***************************************************************************)
\* a Dead call that clears the output array before it returns
dUdt_dead_clearing(name, U, L0) ==
    /\ call' = [op |-> name, ret |-> 1, U |-> U, L0 |-> L0]
    /\ L' = [c \in DOMAIN L0 |-> [k \in 1..8 |-> Zero]]
    /\ UNCHANGED <<globals, ptr, buffers, heap, crashed, newton>>

\* if (libopstate == LibraryOperation_Dead) return 1;
dUdt_dead(name, U, L0) ==
    /\ call' = [op |-> name, ret |-> 1, U |-> U, L0 |-> L0]
    /\ L' = L0
    /\ UNCHANGED <<globals, ptr, buffers, heap, crashed, newton>>

\* Fiph calls through slope_limiter while it is still NULL
NullCall(ls, dims) ==
    /\ slope_limiter = "NULL"
    /\ FiphLimits(ls)
    /\ \E dim \in 1..dims : FiphCells(stride, dim) # {}

\* the call through the NULL pointer ends the process; cons_to_prim_array
\* has returned by then
dUdt_fault(name, U, L0, c2p, ls1) ==
    /\ crashed' = TRUE
    /\ call' = [op |-> name, ret |-> "none", U |-> U, L0 |-> L0,
                P0 |-> PrimitiveArray, W0 |-> cons_to_prim_last_W,
                u0 |-> <<lib_ux, lib_uy, lib_uz>>]
    /\ L' = L0
    /\ dimension' = 1
    /\ lib_state' = ls1
    /\ PrimitiveArray' = c2p.P
    /\ cons_to_prim_last_W' = c2p.last_W
    /\ lib_ux' = c2p.ux
    /\ lib_uy' = c2p.uy
    /\ lib_uz' = c2p.uz
    /\ UNCHANGED <<libopstate, quiet, stride, dx, dy, dz, slope_limiter, ptr,
                   FluxInterArray_x, FluxInterArray_y, FluxInterArray_z, heap,
                   newton>>

\* what every dUdt_Nd leaves behind besides the fluxes, L and dimension
dUdt_done(name, U, L0, c2p, ls2) ==
    /\ call' = [op |-> name, ret |-> c2p.failures, U |-> U, L0 |-> L0,
                P0 |-> PrimitiveArray, W0 |-> cons_to_prim_last_W,
                u0 |-> <<lib_ux, lib_uy, lib_uz>>]
    /\ lib_state' = ls2
    /\ PrimitiveArray' = c2p.P
    /\ cons_to_prim_last_W' = c2p.last_W
    /\ lib_ux' = c2p.ux
    /\ lib_uy' = c2p.uy
    /\ lib_uz' = c2p.uz
    /\ UNCHANGED <<libopstate, quiet, stride, dx, dy, dz, slope_limiter, ptr,
                   heap, crashed, newton>>

\* failures = cons_to_prim_array(U,P,stride[0]/8) with P = PrimitiveArray
dUdt_invert(U) ==
    cons_to_prim_array(lib_state, TRUE, U, PrimitiveArray, TRUE, PrimitiveArray,
                       stride[1] \div 8, cons_to_prim_last_W, lib_ux, lib_uy, lib_uz)

\* the difference taken with the opposite sign
dUdt_diff_reversed(F, c, S, d) ==
    [k \in 1..8 |-> Div(Sub(F[c][k], F[c - S][k]), d)]

\* -(F[i]-F[i-S])/d for the 8 doubles of cell c
dUdt_diff(F, c, S, d) ==
    [k \in 1..8 |-> Div(Neg(Sub(F[c][k], F[c - S][k])), d)]

dUdt_1d(U, L0, q, junk, h) ==
    /\ ~crashed
    /\ budget.deriv < MaxDeriv
    /\ budget' = [budget EXCEPT !.deriv = @ + 1]
    /\ IF libopstate = "Dead" THEN dUdt_dead("dUdt_1d", U, L0)
       ELSE \E c2p \in {dUdt_invert(U)} :
               \E ls1 \in {[lib_state EXCEPT !.cons_to_prim_iter = @ + c2p.iter]} :
                 IF NullCall(ls1, 1)
                 THEN dUdt_fault("dUdt_1d", U, L0, c2p, ls1)
                 ELSE \E F \in {Fiph(ls1, slope_limiter, 1, stride, c2p.P, c2p.ux,
                                      c2p.uy, c2p.uz, FluxInterArray_x, q, junk, h)} :
                        LET S == stride[2] \div 8
                        IN  /\ dimension' = 1
                            /\ FluxInterArray_x' = F.F
                            /\ L' = [c \in DOMAIN L0 |->
                                        IF c >= S THEN dUdt_diff(F.F, c, S, dx)
                                        ELSE L0[c]]
                            /\ dUdt_done("dUdt_1d", U, L0, c2p,
                                         [ls1 EXCEPT !.max_lambda = F.max_lambda])
                            /\ UNCHANGED <<FluxInterArray_y, FluxInterArray_z>>

dUdt_2d(U, L0, q, junk, h) ==
    /\ ~crashed
    /\ budget.deriv < MaxDeriv
    /\ budget' = [budget EXCEPT !.deriv = @ + 1]
    /\ IF libopstate = "Dead" THEN dUdt_dead("dUdt_2d", U, L0)
       ELSE \E c2p \in {dUdt_invert(U)} :
               \E ls1 \in {[lib_state EXCEPT !.cons_to_prim_iter = @ + c2p.iter]} :
                 IF NullCall(ls1, 2)
                 THEN dUdt_fault("dUdt_2d", U, L0, c2p, ls1)
                 ELSE \E F \in {Fiph(ls1, slope_limiter, 1, stride, c2p.P, c2p.ux,
                                      c2p.uy, c2p.uz, FluxInterArray_x, q, junk, h)} :
                      \E G \in {Fiph([ls1 EXCEPT !.max_lambda = F.max_lambda],
                                      slope_limiter, 2, stride, c2p.P, c2p.ux,
                                      c2p.uy, c2p.uz, FluxInterArray_y, q, junk, h)} :
                      \E ct \in {constraint_transport_2d(stride, F.F, G.F, junk)} :
                        LET sx == stride[2] \div 8
                            sy == stride[3] \div 8
                        IN  /\ dimension' = 2
                            /\ FluxInterArray_x' = ct.Fx
                            /\ FluxInterArray_y' = ct.Fy
                            /\ L' = [c \in DOMAIN L0 |->
                                        IF c >= sx
                                        THEN [k \in 1..8 |->
                                                Sub(dUdt_diff(ct.Fx, c, sx, dx)[k],
                                                    Div(Sub(ct.Fy[c][k], ct.Fy[c - sy][k]),
                                                        dy))]
                                        ELSE L0[c]]
                            /\ dUdt_done("dUdt_2d", U, L0, c2p,
                                         [ls1 EXCEPT !.max_lambda = G.max_lambda])
                            /\ UNCHANGED FluxInterArray_z

dUdt_3d(U, L0, q, junk, h) ==
    /\ ~crashed
    /\ budget.deriv < MaxDeriv
    /\ budget' = [budget EXCEPT !.deriv = @ + 1]
    /\ IF libopstate = "Dead" THEN dUdt_dead("dUdt_3d", U, L0)
       ELSE \E c2p \in {dUdt_invert(U)} :
               \E ls1 \in {[lib_state EXCEPT !.cons_to_prim_iter = @ + c2p.iter]} :
                 IF NullCall(ls1, 3)
                 THEN dUdt_fault("dUdt_3d", U, L0, c2p, ls1)
                 ELSE \E F \in {Fiph(ls1, slope_limiter, 1, stride, c2p.P, c2p.ux,
                                      c2p.uy, c2p.uz, FluxInterArray_x, q, junk, h)} :
                      \E G \in {Fiph([ls1 EXCEPT !.max_lambda = F.max_lambda],
                                      slope_limiter, 2, stride, c2p.P, c2p.ux,
                                      c2p.uy, c2p.uz, FluxInterArray_y, q, junk, h)} :
                      \E H \in {Fiph([ls1 EXCEPT !.max_lambda = G.max_lambda],
                                      slope_limiter, 3, stride, c2p.P, c2p.ux,
                                      c2p.uy, c2p.uz, FluxInterArray_z, q, junk, h)} :
                      \E ct \in {constraint_transport_3d(stride, F.F, G.F, H.F, junk)} :
                        LET sx == stride[2] \div 8
                            sy == stride[3] \div 8
                            sz == stride[4] \div 8
                        IN  /\ dimension' = 3
                            /\ FluxInterArray_x' = ct.Fx
                            /\ FluxInterArray_y' = ct.Fy
                            /\ FluxInterArray_z' = ct.Fz
                            /\ L' = [c \in DOMAIN L0 |->
                                        IF c >= sx
                                        THEN [k \in 1..8 |->
                                                Sub(Sub(dUdt_diff(ct.Fx, c, sx, dx)[k],
                                                        Div(Sub(ct.Fy[c][k], ct.Fy[c - sy][k]),
                                                            dy)),
                                                    Div(Sub(ct.Fz[c][k], ct.Fz[c - sz][k]),
                                                        dz))]
                                        ELSE L0[c]]
                            /\ dUdt_done("dUdt_3d", U, L0, c2p,
                                         [ls1 EXCEPT !.max_lambda = H.max_lambda])

(***************************************************************************)
(* The point-level operations called by the user, on the session state     *)
(***************************************************************************)
\* a conversion that takes its adiabatic index from plm_theta
prim_to_cons_point_call_theta(P) ==
    /\ ~crashed
    /\ budget.point < MaxPoint
    /\ budget' = [budget EXCEPT !.point = @ + 1]
    /\ call' = [op |-> "prim_to_cons_point", ret |-> 0, P |-> P,
                U |-> prim_to_cons_point(
                          [lib_state EXCEPT !.adiabatic_gamma = lib_state.plm_theta], P)]
    /\ UNCHANGED <<globals, ptr, buffers, heap, L, crashed, newton>>

prim_to_cons_point_call(P) ==
    /\ ~crashed
    /\ budget.point < MaxPoint
    /\ budget' = [budget EXCEPT !.point = @ + 1]
    /\ call' = [op |-> "prim_to_cons_point", ret |-> 0, P |-> P,
                U |-> prim_to_cons_point(lib_state, P)]
    /\ UNCHANGED <<globals, ptr, buffers, heap, L, crashed, newton>>

cons_to_prim_point_call(U, P) ==
    /\ ~crashed
    /\ budget.point < MaxPoint
    /\ budget' = [budget EXCEPT !.point = @ + 1]
    /\ \E r \in {cons_to_prim_point(lib_state, U, P, cons_to_prim_last_W)} :
         /\ call' = [op |-> "cons_to_prim_point", ret |-> r.ret, U |-> U, P0 |-> P,
                     P |-> r.P]
         /\ lib_state' = [lib_state EXCEPT !.cons_to_prim_iter = @ + r.n_iter]
         /\ cons_to_prim_last_W' = r.W
    /\ UNCHANGED <<libopstate, quiet, dimension, stride, dx, dy, dz, slope_limiter,
                   ptr, buffers, heap, L, crashed, newton>>

rmhd_flux_and_eval_call(U, P, q, junk) ==
    /\ ~crashed
    /\ budget.point < MaxPoint
    /\ budget' = [budget EXCEPT !.point = @ + 1]
    /\ \E r \in {rmhd_flux_and_eval(lib_state, dimension, U, P, q, junk, junk)} :
         call' = [op |-> "rmhd_flux_and_eval", ret |-> r.ret, U |-> U, P |-> P,
                  q |-> q, F |-> r.F, ap |-> r.ap, am |-> r.am,
                  ap1 |-> r.ap1, am1 |-> r.am1]
    /\ UNCHANGED <<globals, ptr, buffers, heap, L, crashed, newton>>

(***************************************************************************)
(* The calls a user makes                                                  *)
(***************************************************************************)
\* the grid <<Nx, Ny, Nz>> of the session, read back from stride (the grid of
\* the arrays a caller hands to a session that was never initialised is 6x1x1)
GridShape ==
    IF stride[1] = 0 THEN <<6, 1, 1>>
    ELSE <<stride[1] \div stride[2], stride[2] \div stride[3], stride[3] \div 8>>

\* what the quartic solver hands back: roots inside the light cone, and
\* roots outside it
SolverInside ==
    [r1 |-> Half, r2 |-> Neg(Half), r3 |-> Zero, r4 |-> Zero,
     nr12 |-> 2, nr34 |-> 0, nr |-> 2, xm |-> Neg(Half), xp |-> Half]

SolverOutside ==
    [r1 |-> Half, r2 |-> Rat(0 - 1, 4), r3 |-> Rat(1, 4), r4 |-> Num(0 - 2),
     nr12 |-> 2, nr34 |-> 2, nr |-> 4, xm |-> Num(0 - 2), xp |-> Half]

SolverOutcomes == {SolverInside, SolverOutside}

\* further outcomes: roots on the light cone, no number at all, and infinite
SolverEdge ==
    [r1 |-> One, r2 |-> Neg(One), r3 |-> Zero, r4 |-> Zero,
     nr12 |-> 2, nr34 |-> 0, nr |-> 2, xm |-> Neg(One), xp |-> One]

SolverNaN ==
    [r1 |-> NaN, r2 |-> NaN, r3 |-> NaN, r4 |-> NaN,
     nr12 |-> 0, nr34 |-> 0, nr |-> 0, xm |-> NaN, xp |-> NaN]

SolverInf ==
    [r1 |-> PosInf, r2 |-> NegInf, r3 |-> Zero, r4 |-> Zero,
     nr12 |-> 2, nr34 |-> 0, nr |-> 2, xm |-> NegInf, xp |-> PosInf]

EvalOutcomes == SolverOutcomes \cup {SolverEdge, SolverNaN, SolverInf}

\* the caller's output array before a call
OutputArray(shape) ==
    [c \in 0..(NCells(shape) - 1) |-> [k \in 1..8 |-> Num(7)]]

ConservedField(shape, name) ==
    prim_to_cons_array(lib_state, PrimField(shape, name), NCells(shape))

PointStates == {StateA, StateB, StateM}

\* The Newton iteration is followed in exact arithmetic, so the model calls
\* the inversion where it ends within two passes: for a state at rest from
\* any guess at rest, and for the moving state from itself as the guess.
AtRest(P) == P[vx] = Zero /\ P[vy] = Zero /\ P[vz] = Zero

Followed(P, G) ==
    IF AtRest(P) /\ AtRest(G) THEN TRUE
    ELSE P = G /\ lib_state.cons_to_prim_use_estimate = 0

FollowedField(name) ==
    \A c \in DOMAIN PrimitiveArray :
        Followed(PrimField(GridShape, name)[c], PrimitiveArray[c])

Derivative ==
    \E name \in FieldNames, s \in SolverOutcomes, junk \in Indeterminate :
        /\ FollowedField(name)
        /\ \/ dUdt_1d(ConservedField(GridShape, name), OutputArray(GridShape),
                      [l |-> s, r |-> s], junk, ZeroCell)
           \/ dUdt_2d(ConservedField(GridShape, name), OutputArray(GridShape),
                      [l |-> s, r |-> s], junk, ZeroCell)
           \/ dUdt_3d(ConservedField(GridShape, name), OutputArray(GridShape),
                      [l |-> s, r |-> s], junk, ZeroCell)

Lifecycle ==
    \/ \E shape \in Shapes, name \in GuessNames, junk \in Indeterminate :
          initialize(PrimField(shape, name), shape[1], shape[2], shape[3],
                     Two, Two, Two, 1, junk)
    \/ finalize

Configure ==
    \/ \E state \in Configs : set_state(state)
    \/ get_state

PointCall ==
    \/ \E P \in PointStates : prim_to_cons_point_call(P)
    \/ \E P \in PointStates, G \in PointStates :
          /\ Followed(P, G)
          /\ cons_to_prim_point_call(prim_to_cons_point(lib_state, P), G)
    \/ \E P \in PointStates, s \in SolverOutcomes, junk \in Indeterminate :
          rmhd_flux_and_eval_call(prim_to_cons_point(lib_state, P), P, s, junk)

\* a session: any order of set_state, get_state, initialize, finalize and
\* dUdt_Nd calls
Next == Lifecycle \/ Configure \/ Derivative

Spec == Init /\ [][Next]_vars

(***************************************************************************)
(* Sessions on a grid: the state that set_state(state) and then            *)
(* initialize(P, Nx, Ny, Nz, 2, 2, 2, 1) leave behind at program start     *)
(* (or initialize alone), followed by derivative calls                     *)
(***************************************************************************)
GridSession(state, limiter, shape, name, junk) ==
    /\ libopstate = "Alive"
    /\ quiet = 1
    /\ dimension = 1
    /\ stride = <<NCells(shape) * 8, shape[2] * shape[3] * 8, shape[3] * 8, 8>>
    /\ dx = Div(Two, Num(shape[1] - 2 * Ng))
    /\ dy = Div(Two, Num(shape[2] - 2 * Ng))
    /\ dz = Div(Two, Num(shape[3] - 2 * Ng))
    /\ cons_to_prim_last_W = Zero
    /\ slope_limiter = limiter
    /\ lib_state = state
    /\ ptr = [b \in BufferNames |-> CHOOSE k \in 1..7 : MallocOrder[k] = b]
    /\ PrimitiveArray = PrimField(shape, name)
    /\ FluxInterArray_x = [c \in 0..(NCells(shape) - 1) |-> [k \in 1..8 |-> junk]]
    /\ FluxInterArray_y = [c \in 0..(NCells(shape) - 1) |-> [k \in 1..8 |-> junk]]
    /\ FluxInterArray_z = [c \in 0..(NCells(shape) - 1) |-> [k \in 1..8 |-> junk]]
    /\ lib_ux = [c \in 0..(NCells(shape) - 1) |-> junk]
    /\ lib_uy = [c \in 0..(NCells(shape) - 1) |-> junk]
    /\ lib_uz = [c \in 0..(NCells(shape) - 1) |-> junk]
    /\ heap = [live |-> 1..7, next |-> 8, fault |-> FALSE]
    /\ budget = [init |-> 1, deriv |-> 0, point |-> 0]
    /\ L = << >>
    /\ call = [op |-> "initialize", ret |-> 0]
    /\ crashed = FALSE
    /\ newton = [pc |-> "idle"]

InitGrid ==
    \E shape \in GridShapes, name \in GuessNames, junk \in Indeterminate :
        \/ GridSession(LibraryStateDefault, "NULL", shape, name, junk)
        \/ \E state \in Configs :
              GridSession(state, LimiterOf(state.mode_slope_limiter), shape,
                          name, junk)

SpecGrid == InitGrid /\ [][Derivative]_vars

(***************************************************************************)
(* Point-level calls in a session on the 6x1x1 grid                        *)
(***************************************************************************)
NextPoint ==
    \/ \E state \in Configs : set_state(state)
    \/ \E junk \in Indeterminate :
          initialize(PrimField(<<6, 1, 1>>, "A"), 6, 1, 1, Two, Two, Two, 1, junk)
    \/ \E junk \in Indeterminate :
          LET U == ConservedField(GridShape, "A")
              q == [l |-> SolverInside, r |-> SolverInside]
          IN  \/ dUdt_1d(U, OutputArray(GridShape), q, junk, ZeroCell)
              \/ dUdt_2d(U, OutputArray(GridShape), q, junk, ZeroCell)
              \/ dUdt_3d(U, OutputArray(GridShape), q, junk, ZeroCell)
    \/ PointCall

SpecPoint == Init /\ [][NextPoint]_vars

(***************************************************************************)
(* The numerical core called on its own.  Fiph and the dUdt_Nd set         *)
(* dimension before they call into it, and set_state has chosen the modes. *)
(***************************************************************************)
InitCore ==
    \E d \in 1..3, state \in {LibraryStateDefault} \cup Configs :
        /\ libopstate = "Dead"
        /\ quiet = 0
        /\ dimension = d
        /\ stride = <<0, 0, 0, 0>>
        /\ dx = Zero
        /\ dy = Zero
        /\ dz = Zero
        /\ cons_to_prim_last_W = Zero
        /\ slope_limiter =
              IF state = LibraryStateDefault THEN "NULL"
              ELSE LimiterOf(state.mode_slope_limiter)
        /\ lib_state = state
        /\ ptr = [b \in BufferNames |-> 0]
        /\ PrimitiveArray = << >>
        /\ FluxInterArray_x = << >>
        /\ FluxInterArray_y = << >>
        /\ FluxInterArray_z = << >>
        /\ lib_ux = << >>
        /\ lib_uy = << >>
        /\ lib_uz = << >>
        /\ heap = [live |-> {}, next |-> 1, fault |-> FALSE]
        /\ budget = [init |-> 0, deriv |-> 0, point |-> 0]
        /\ L = << >>
        /\ call = [op |-> "none"]
        /\ crashed = FALSE
        /\ newton = [pc |-> "idle"]

\* interface speeds handed to hll_flux: below, at, between, at and above the
\* bounds the solver outcomes give, and NaN
InterfaceSpeeds ==
    {Num(0 - 2), Num(0 - 1), Neg(Half), Zero, Half, One, Two, NaN}

\* hll_flux(pl, pr, U, F, s) on buffers U and F that hold junk
hll_flux_call(pl, pr, s, q, junk) ==
    /\ ~crashed
    /\ budget.point < MaxPoint
    /\ budget' = [budget EXCEPT !.point = @ + 1]
    /\ \E r \in {hll_flux(lib_state, dimension, pl, pr, [k \in 1..8 |-> junk],
                          [k \in 1..8 |-> junk], s, q, junk)} :
         /\ call' = [op |-> "hll_flux", ret |-> r.ret, s |-> s, pl |-> pl, pr |-> pr,
                     am |-> r.am, ap |-> r.ap, U |-> r.U, F |-> r.F,
                     U0 |-> [k \in 1..8 |-> junk], F0 |-> [k \in 1..8 |-> junk],
                     Ul |-> r.Ul, Ur |-> r.Ur, Fl |-> r.Fl, Fr |-> r.Fr,
                     U_hll |-> r.U_hll, F_hll |-> r.F_hll,
                     max_lambda0 |-> lib_state.max_lambda]
         /\ lib_state' = [lib_state EXCEPT !.max_lambda = r.max_lambda]
    /\ UNCHANGED <<libopstate, quiet, dimension, stride, dx, dy, dz,
                   cons_to_prim_last_W, slope_limiter, ptr, buffers, heap, L,
                   crashed, newton>>

NextHLL ==
    \E pl \in PointStates, pr \in PointStates, s \in InterfaceSpeeds,
       ql \in SolverOutcomes, qr \in SolverOutcomes, junk \in Indeterminate :
        hll_flux_call(pl, pr, s, [l |-> ql, r |-> qr], junk)

SpecHLL == InitCore /\ [][NextHLL]_vars

\* raw face fluxes a caller hands to the constraint transport
FluxPatterns == 1..4

RawFlux(shape, p, o) ==
    [c \in 0..(NCells(shape) - 1) |->
        [k \in 1..8 |->
            CASE p = 1 -> Num(((3 * c + 5 * k + o) % 7) - 3)
              [] p = 2 -> Rat(c + k + o, 4)
              [] p = 3 -> IF (c + k + o) % 3 = 0 THEN NaN ELSE Num(c - k)
              [] p = 4 -> IF (c + o) % 2 = 0 THEN PosInf ELSE Rat(k, 3)]]

constraint_transport_2d_call(Fx, Fy, junk) ==
    /\ ~crashed
    /\ budget.point < MaxPoint
    /\ budget' = [budget EXCEPT !.point = @ + 1]
    /\ \E r \in {constraint_transport_2d(stride, Fx, Fy, junk)} :
         call' = [op |-> "constraint_transport_2d", ret |-> r.ret,
                  Fx0 |-> Fx, Fy0 |-> Fy, Fx |-> r.Fx, Fy |-> r.Fy]
    /\ UNCHANGED <<globals, ptr, buffers, heap, L, crashed, newton>>

constraint_transport_3d_call(Fx, Fy, Fz, junk) ==
    /\ ~crashed
    /\ budget.point < MaxPoint
    /\ budget' = [budget EXCEPT !.point = @ + 1]
    /\ \E r \in {constraint_transport_3d(stride, Fx, Fy, Fz, junk)} :
         call' = [op |-> "constraint_transport_3d", ret |-> r.ret,
                  Fx0 |-> Fx, Fy0 |-> Fy, Fz0 |-> Fz,
                  Fx |-> r.Fx, Fy |-> r.Fy, Fz |-> r.Fz]
    /\ UNCHANGED <<globals, ptr, buffers, heap, L, crashed, newton>>

NextCT ==
    \E p \in FluxPatterns, junk \in Indeterminate :
        \/ constraint_transport_2d_call(RawFlux(GridShape, p, 0),
                                        RawFlux(GridShape, p, 1), junk)
        \/ constraint_transport_3d_call(RawFlux(GridShape, p, 0),
                                        RawFlux(GridShape, p, 1),
                                        RawFlux(GridShape, p, 2), junk)

SpecCT == InitGrid /\ [][NextCT]_vars

(***************************************************************************)
(* cons_to_prim_point pass by pass: newton holds the frame of the call in  *)
(* progress with its arguments, and each pass takes the update <<dZ, dW>>  *)
(* as given, whatever residuals produced it                                *)
(***************************************************************************)
\* updates: a converged one, one that moves nothing and is not converged
\* (W is clamped at smlW), and one that is not converged and takes Z between
\* 9/2, 1 and 5/2, where the implied pressure is above, below and above the
\* floor
NewtonUpdates == {<<Zero, Zero>>, <<Zero, One>>, <<Rat(7, 2), One>>}

cons_to_prim_point_enter(U, P) ==
    /\ ~crashed
    /\ newton.pc = "idle"
    /\ budget.point < MaxPoint
    /\ budget' = [budget EXCEPT !.point = @ + 1]
    /\ newton' = NewtonEnter(lib_state, U, P) @@ [U |-> U, P |-> P]
    /\ UNCHANGED <<globals, ptr, buffers, heap, L, call, crashed>>

cons_to_prim_point_pass(d) ==
    /\ newton.pc = "loop"
    /\ newton' = NewtonIterate(lib_state, newton.U, newton.P, newton, d)
    /\ UNCHANGED <<globals, ptr, buffers, heap, L, call, crashed, budget>>

cons_to_prim_point_leave ==
    /\ newton.pc \in {"found", "return 1"}
    /\ \E r \in {NewtonReturn(lib_state, newton.U, newton.P, cons_to_prim_last_W,
                              newton)} :
         /\ call' = [op |-> "cons_to_prim_point", ret |-> r.ret, U |-> newton.U,
                     P0 |-> newton.P, P |-> r.P, W0 |-> cons_to_prim_last_W,
                     iter0 |-> lib_state.cons_to_prim_iter,
                     n_iter |-> newton.n_iter, soln_found |-> newton.soln_found,
                     W |-> newton.W, Z |-> newton.Z,
                     use_pres_floor |-> newton.use_pres_floor]
         /\ lib_state' = [lib_state EXCEPT !.cons_to_prim_iter = @ + r.n_iter]
         /\ cons_to_prim_last_W' = r.W
    /\ newton' = [pc |-> "idle"]
    /\ UNCHANGED <<libopstate, quiet, dimension, stride, dx, dy, dz, slope_limiter,
                   ptr, buffers, heap, L, crashed, budget>>

NextNewton ==
    \/ \E P \in {StateA, StateB} :
          cons_to_prim_point_enter(prim_to_cons_point(lib_state, StateA), P)
    \/ \E d \in NewtonUpdates : cons_to_prim_point_pass(d)
    \/ cons_to_prim_point_leave

\* the inversion does not read dimension
InitNewton == InitCore /\ dimension = 1

SpecNewton == InitNewton /\ [][NextNewton]_vars

\* rmhd_flux_and_eval on its own, for whatever the quartic solver hands back
NextEval ==
    \E P \in PointStates, s \in EvalOutcomes, junk \in Indeterminate :
        rmhd_flux_and_eval_call(prim_to_cons_point(lib_state, P), P, s, junk)

SpecEval == InitCore /\ [][NextEval]_vars

(***************************************************************************)
(* Properties of the session                                               *)
(***************************************************************************)
DerivativeOps == {"dUdt_1d", "dUdt_2d", "dUdt_3d"}

\* the step is a call of dUdt_1d, dUdt_2d or dUdt_3d
DerivativeStep == budget'.deriv = budget.deriv + 1 /\ call'.op \in DerivativeOps

\* C1: a dUdt_1d, dUdt_2d or dUdt_3d call made while the library is Dead
\* returns 1 and leaves the output array L as the caller handed it in, and
\* leaves the cached primitive array, the flux buffers, the 4-velocity
\* cache, dimension and every field of lib_state unchanged.
C1_DeadDerivativeDoesNothing ==
    [][(libopstate = "Dead" /\ DerivativeStep) =>
          /\ call'.ret = 1
          /\ L' = call'.L0
          /\ UNCHANGED <<PrimitiveArray, FluxInterArray_x, FluxInterArray_y,
                         FluxInterArray_z, lib_ux, lib_uy, lib_uz, dimension,
                         lib_state>>]_vars

\* a Dead call has returned in a session that was initialized, configured
\* and finalized before
C1_Witness ==
    /\ libopstate = "Dead"
    /\ call.op \in DerivativeOps
    /\ call.ret = 1
    /\ budget.init > 0
    /\ lib_state # LibraryStateDefault
    /\ L = call.L0
    /\ L # << >>

\* C2: after any order of initialize and finalize calls the seven grid-sized
\* buffers are allocated exactly when the library is Alive, every block
\* taken from the heap is still held by one of the seven pointers (nothing
\* is lost without being freed), and no block has been freed twice.
C2_BuffersFollowLifecycle ==
    /\ (libopstate = "Alive") <=> (\A b \in BufferNames : ptr[b] \in heap.live)
    /\ heap.live \subseteq {ptr[b] : b \in BufferNames}
    /\ ~heap.fault

\* initialize has been called twice in a row: seven blocks of the first call
\* are live and no pointer holds them
C2_Leak ==
    /\ call.op = "initialize"
    /\ budget.init = 2
    /\ Cardinality(heap.live \ {ptr[b] : b \in BufferNames}) = 7

(***************************************************************************)
(* Properties of the derivative on a grid                                  *)
(***************************************************************************)
\* the axes a derivative call differences along
ActiveAxes(op) ==
    CASE op = "dUdt_1d" -> 1 [] op = "dUdt_2d" -> 2 [] op = "dUdt_3d" -> 3

\* <<i, j, k>> of cell c
Coord(c) ==
    <<c \div (GridShape[2] * GridShape[3]),
      (c \div GridShape[3]) % GridShape[2], c % GridShape[3]>>

\* c lies in the 2-cell margin of one of the first n axes
GuardCell(c, n) ==
    \E a \in 1..n : Coord(c)[a] < Ng \/ Coord(c)[a] >= GridShape[a] - Ng

\* the last call was a derivative call in the Alive state and it returned
AliveDerivativeDone == call.op \in DerivativeOps /\ libopstate = "Alive" /\ ~crashed

StoredDerivative(c, op) ==
    LET X(k) == Div(Neg(Sub(FluxInterArray_x[c][k],
                            FluxInterArray_x[c - stride[2] \div 8][k])), dx)
        Y(k) == Div(Sub(FluxInterArray_y[c][k],
                        FluxInterArray_y[c - stride[3] \div 8][k]), dy)
        Z(k) == Div(Sub(FluxInterArray_z[c][k],
                        FluxInterArray_z[c - stride[4] \div 8][k]), dz)
    IN  CASE op = "dUdt_1d" -> [k \in 1..8 |-> X(k)]
          [] op = "dUdt_2d" -> [k \in 1..8 |-> Sub(X(k), Y(k))]
          [] op = "dUdt_3d" -> [k \in 1..8 |-> Sub(Sub(X(k), Y(k)), Z(k))]

C4_RightStateFromApOn ==
    call.op = "hll_flux" =>
        /\ Le(call.s, call.am) => call.U = call.Ul /\ call.F = call.Fl
        /\ (Lt(call.am, call.s) /\ Lt(call.s, call.ap)) =>
              call.U = call.U_hll /\ call.F = call.F_hll
        /\ (Lt(call.am, call.s) /\ Ge(call.s, call.ap)) =>
              call.U = call.Ur /\ call.F = call.Fr

\* C4, amended: the left state and flux for s <= am, the HLL average for
\* am < s <= ap (s = ap included), the right state and flux for ap < s; when
\* none of the comparisons holds (s is NaN) U and F are not written.
C4_AverageUpToAp ==
    call.op = "hll_flux" =>
        /\ Le(call.s, call.am) => call.U = call.Ul /\ call.F = call.Fl
        /\ (Lt(call.am, call.s) /\ Le(call.s, call.ap)) =>
              call.U = call.U_hll /\ call.F = call.F_hll
        /\ (~Le(call.s, call.am) /\ Lt(call.ap, call.s)) =>
              call.U = call.Ur /\ call.F = call.Fr
        /\ IsNaN(call.s) => call.U = call.U0 /\ call.F = call.F0

\* hll_flux has returned for s = ap with different left and right states:
\* it handed out the average, which is not the right state
C4_Witness ==
    /\ call.op = "hll_flux"
    /\ call.s = call.ap
    /\ Lt(call.am, call.ap)
    /\ call.pl # call.pr
    /\ call.U = call.U_hll
    /\ call.U # call.Ur
    /\ call.F = call.F_hll
    /\ call.F # call.Fr

TransportOps == {"constraint_transport_2d", "constraint_transport_3d"}

\* C5: after constraint_transport_2d or constraint_transport_3d, in every
\* cell of the grid, guard cells included, the flux of each magnetic
\* component along its own axis is exactly 0 (Fx[Bx], Fy[By], and Fz[Bz] in
\* 3D), whatever the raw fluxes were, and the components ddd, tau, Sx, Sy,
\* Sz of every cell of every flux array are unchanged.
C5_SelfFluxZeroRestKept ==
    call.op \in TransportOps =>
        \A c \in DOMAIN call.Fx :
            /\ call.Fx[c][Bx] = Zero
            /\ call.Fy[c][By] = Zero
            /\ call.op = "constraint_transport_3d" => call.Fz[c][Bz] = Zero
            /\ \A k \in {ddd, tau, Sx, Sy, Sz} :
                  /\ call.Fx[c][k] = call.Fx0[c][k]
                  /\ call.Fy[c][k] = call.Fy0[c][k]
                  /\ call.op = "constraint_transport_3d" =>
                        call.Fz[c][k] = call.Fz0[c][k]

\* constraint_transport_3d has returned on the 3x3x3 grid for raw fluxes
\* whose self-components were not zero, NaN among them
C5_Witness ==
    /\ call.op = "constraint_transport_3d"
    /\ GridShape = <<3, 3, 3>>
    /\ \E c \in DOMAIN call.Fx : IsNaN(call.Fx0[c][Bx])
    /\ \A c \in DOMAIN call.Fx : call.Fz[c][Bz] = Zero
    /\ \E c \in DOMAIN call.Fx : c \notin TransportCells(stride) /\ call.Fy0[c][By] # Zero

\* C6: cons_to_prim_point returns nonzero only when the cap is exceeded and
\* the convergence test has not been satisfied: a pass on which the test is
\* satisfied with the implied pressure at or above the floor (soln_found is
\* set), the last allowed pass included, ends in the return of 0.
C6_ConvergedPassReturnsZero ==
    /\ newton.pc = "return 1" =>
          newton.n_iter = NEWTON_MAX_ITER + 1 /\ newton.soln_found = 0
    /\ (newton.pc # "idle" /\ newton.soln_found = 1) => newton.pc = "found"

\* the call has returned 1 from the pass on which the convergence test was
\* satisfied with the pressure at or above the floor
C6_Witness ==
    /\ call.op = "cons_to_prim_point"
    /\ call.ret = 1
    /\ call.soln_found = 1
    /\ call.n_iter = NEWTON_MAX_ITER + 1

\* C7: when cons_to_prim_point returns nonzero, P is as the caller handed it
\* in, and cons_to_prim_last_W and lib_state.cons_to_prim_iter are as they
\* were before the call.
C7_FailureWritesNothing ==
    (call.op = "cons_to_prim_point" /\ call.ret # 0) =>
        /\ call.P = call.P0
        /\ cons_to_prim_last_W = call.W0
        /\ lib_state.cons_to_prim_iter = call.iter0

\* a call has failed in the floor phase, with W of the loop away from the
\* recorded one and the iterate away from the guess
C7_Witness ==
    /\ call.op = "cons_to_prim_point"
    /\ call.ret = 1
    /\ call.use_pres_floor = 1
    /\ call.n_iter = NEWTON_MAX_ITER + 1
    /\ call.W # call.W0
    /\ call.P0 = StateB
    /\ NewtonResult(lib_state, call.U, call) # call.P0

\* C8 as stated: for any strategy and any values the root finder returns,
\* |ap| <= 1 and |am| <= 1 on return, and when either computed bound has
\* magnitude above 1 both are replaced by am = -1, ap = 1
C8_BoundsWithinLightCone ==
    call.op = "rmhd_flux_and_eval" =>
        /\ Le(fabs(call.ap), One)
        /\ Le(fabs(call.am), One)
        /\ (Gt(fabs(call.ap1), One) \/ Gt(fabs(call.am1), One)) =>
              call.am = Neg(One) /\ call.ap = One

\* C8, amended: when either computed bound has magnitude above 1 both are
\* replaced by am = -1, ap = 1; otherwise both are handed back as computed.
\* So |ap| <= 1 and |am| <= 1 on return unless a computed bound is NaN and
\* the other one does not exceed 1: the NaN is then handed back.
C8_FallbackUnlessNaN ==
    call.op = "rmhd_flux_and_eval" =>
        /\ (Gt(fabs(call.ap1), One) \/ Gt(fabs(call.am1), One)) =>
              call.am = Neg(One) /\ call.ap = One
        /\ ~(Gt(fabs(call.ap1), One) \/ Gt(fabs(call.am1), One)) =>
              call.am = call.am1 /\ call.ap = call.ap1
        /\ (~IsNaN(call.ap1) /\ ~IsNaN(call.am1)) =>
              Le(fabs(call.ap), One) /\ Le(fabs(call.am), One)
        /\ (IsNaN(call.ap) \/ IsNaN(call.am)) =>
              IsNaN(call.ap1) \/ IsNaN(call.am1)

\* rmhd_flux_and_eval has returned after the solver gave one bound inside
\* and one outside the light cone: both were replaced
C8_Witness ==
    /\ call.op = "rmhd_flux_and_eval"
    /\ lib_state.mode_quartic_solver = QuarticSolver_Exact
    /\ call.ap1 = Half
    /\ call.am1 = Num(0 - 2)
    /\ call.ap = One
    /\ call.am = Neg(One)

\* every cell of the array holds the same state
Uniform(A) == \A c \in DOMAIN A : A[c] = A[0]

\* C9: a uniform conserved field, inverted from a uniform cached guess,
\* gives under dUdt_1d, dUdt_2d and dUdt_3d a failure count of 0 and a
\* derivative that is exactly zero in every interior cell (outside the
\* 2-cell margin of each active axis).
C9_FlatFieldZeroDerivative ==
    (AliveDerivativeDone /\ Uniform(call.U) /\ Uniform(call.P0)) =>
        /\ call.ret = 0
        /\ \A c \in DOMAIN L :
              ~GuardCell(c, ActiveAxes(call.op)) => L[c] = ZeroCell

\* dUdt_2d has returned without a failure for a uniform field on the 5x5
\* grid under the harmonic-mean limiter, and the interior cell of L holds NaN
C9_Witness ==
    /\ AliveDerivativeDone
    /\ call.op = "dUdt_2d"
    /\ GridShape = <<5, 5, 1>>
    /\ slope_limiter = "harmonic_mean"
    /\ Uniform(call.U)
    /\ Uniform(call.P0)
    /\ call.ret = 0
    /\ \E c \in DOMAIN L : ~GuardCell(c, 2) /\ \E k \in 1..8 : IsNaN(L[c][k])

(***************************************************************************)
(* Properties of the point-level calls in a session                        *)
(***************************************************************************)
\* the session state of a second run that shares adiabatic_gamma only: the
\* program just started
FreshState ==
    [LibraryStateDefault EXCEPT !.adiabatic_gamma = lib_state.adiabatic_gamma]

\* the session state of a second run that shares adiabatic_gamma,
\* cons_to_prim_use_estimate and mode_quartic_solver
SharedState ==
    [LibraryStateDefault EXCEPT
        !.adiabatic_gamma = lib_state.adiabatic_gamma,
        !.cons_to_prim_use_estimate = lib_state.cons_to_prim_use_estimate,
        !.mode_quartic_solver = lib_state.mode_quartic_solver]

\* the last call was a point-level call, and the same call with the session
\* state ls and dimension d gives the same outputs and return value
SamePointResult(ls, d) ==
    /\ call.op = "prim_to_cons_point" =>
          call.U = prim_to_cons_point(ls, call.P)
    /\ call.op = "cons_to_prim_point" =>
          LET r == cons_to_prim_point(ls, call.U, call.P0, Zero)
          IN  call.ret = r.ret /\ call.P = r.P
    /\ call.op = "rmhd_flux_and_eval" =>
          LET r == rmhd_flux_and_eval(ls, d, call.U, call.P, call.q, Num(7), Num(7))
          IN  call.ret = r.ret /\ call.F = r.F /\ call.ap = r.ap /\ call.am = r.am

\* C10 as stated: the outputs and the return value of prim_to_cons_point,
\* cons_to_prim_point and rmhd_flux_and_eval are those of the same call made
\* in a run that shares adiabatic_gamma only, whatever initialize, set_state
\* and dUdt_Nd calls came before
C10_PointResultsDependOnGammaOnly == SamePointResult(FreshState, 1)

\* C10, amended: prim_to_cons_point depends on adiabatic_gamma only;
\* cons_to_prim_point also on cons_to_prim_use_estimate; rmhd_flux_and_eval
\* also on the global dimension, which selects the flux axis, and on
\* mode_quartic_solver.  No other session state enters the results.
C10_PointResultsDependOnModes == SamePointResult(SharedState, dimension)

\* rmhd_flux_and_eval has returned after a dUdt_2d call left dimension = 2,
\* in a session whose modes differ from those at program start; the flux is
\* not the one along x
C10_Witness ==
    /\ call.op = "rmhd_flux_and_eval"
    /\ dimension = 2
    /\ budget.deriv = 1
    /\ lib_state.mode_reconstruct # LibraryStateDefault.mode_reconstruct
    /\ lib_state.max_lambda # Zero
    /\ call.P = StateM
    /\ call.F # rmhd_flux_and_eval(lib_state, 1, call.U, call.P, call.q,
                                   Num(7), Num(7)).F


(***************************************************************************)
(* The signal-speed diagnostic: hll_flux, rmhd_flux_and_eval and dUdt_Nd   *)
(* (which runs Fiph once per axis) called in any order in a session on the *)
(* 6x1x1 grid, with no set_state in between                                *)
(***************************************************************************)
InitLambda ==
    \E junk \in Indeterminate :
        \/ GridSession(LibraryStateDefault, "NULL", <<6, 1, 1>>, "A", junk)
        \/ \E state \in Configs :
              GridSession(state, LimiterOf(state.mode_slope_limiter), <<6, 1, 1>>,
                          "A", junk)

NextLambda ==
    \/ Derivative
    \/ \E pl \in PointStates, ql \in EvalOutcomes, qr \in EvalOutcomes,
          junk \in Indeterminate :
          hll_flux_call(pl, StateA, Zero, [l |-> ql, r |-> qr], junk)
    \/ \E s \in SolverOutcomes, junk \in Indeterminate :
          rmhd_flux_and_eval_call(prim_to_cons_point(lib_state, StateM), StateM,
                                  s, junk)

SpecLambda == InitLambda /\ [][NextLambda]_vars

(***************************************************************************)
(* Properties of the signal-speed diagnostic                               *)
(***************************************************************************)
CoreOps == {"hll_flux", "rmhd_flux_and_eval", "dUdt_1d", "dUdt_2d", "dUdt_3d"}

\* a call of the numerical core has not lowered lib_state.max_lambda
MaxLambdaKept ==
    call'.op \in CoreOps => ~Lt(lib_state'.max_lambda, lib_state.max_lambda)

\* C11 as stated: across hll_flux, rmhd_flux_and_eval, Fiph and dUdt_Nd
\* calls lib_state.max_lambda never decreases, and after each hll_flux call
\* it is at least |ap| and at least |am| of the bounds that call used
C11_MaxLambdaCoversBounds ==
    [][/\ MaxLambdaKept
       /\ call'.op = "hll_flux" =>
             /\ Ge(lib_state'.max_lambda, fabs(call'.ap))
             /\ Ge(lib_state'.max_lambda, fabs(call'.am))]_vars

\* C11, amended: lib_state.max_lambda never decreases across these calls;
\* after an hll_flux call whose lower bound am is a number it is at least
\* |am|, and at least |ap| too when ap is a number; when am is NaN the call
\* leaves it as it was
C11_MaxLambdaCoversNumbers ==
    [][/\ MaxLambdaKept
       /\ call'.op = "hll_flux" =>
             IF IsNaN(call'.am)
             THEN lib_state'.max_lambda = lib_state.max_lambda
             ELSE /\ Ge(lib_state'.max_lambda, fabs(call'.am))
                  /\ ~IsNaN(call'.ap) =>
                        Ge(lib_state'.max_lambda, fabs(call'.ap))]_vars

\* hll_flux has returned with bounds of magnitude 1/2 after a derivative
\* call had raised the diagnostic to 1, and the diagnostic is still 1
C11_Witness ==
    /\ call.op = "hll_flux"
    /\ budget.deriv = 1
    /\ call.ap = Half
    /\ call.am = Neg(Half)
    /\ call.max_lambda0 = One
    /\ lib_state.max_lambda = One

(***************************************************************************)
(* Termination of the Newton loop                                          *)
(***************************************************************************)
\* the passes a call in progress can still make: NEWTON_MAX_ITER + 1 - n_iter
\* in the current phase, and as many again as a whole second phase while the
\* pressure floor has not been used
NewtonRemaining(fr) ==
    IF fr.pc # "loop" THEN 0
    ELSE (IF fr.use_pres_floor = 0 THEN NEWTON_MAX_ITER + 2 ELSE 0)
         + (NEWTON_MAX_ITER + 1 - fr.n_iter)

\* C12: the Newton loop of cons_to_prim_point terminates for every sequence
\* of updates: at the head of the loop n_iter is at most the cap of 25; once
\* use_pres_floor is set a pass either leaves the loop or counts one more
\* iteration of the same phase (no second restart); and every pass lowers
\* the number of passes that remain, which is at most 2 * 25 + 3 on entry,
\* so the call ends in success or failure after at most that many passes
C12_NewtonLoopTerminates ==
    [][newton.pc = "loop" =>
          /\ newton.n_iter <= NEWTON_MAX_ITER
          /\ NewtonRemaining(newton) <= 2 * NEWTON_MAX_ITER + 3
          /\ NewtonRemaining(newton') < NewtonRemaining(newton)
          /\ newton.use_pres_floor = 1 /\ newton'.pc = "loop" =>
                /\ newton'.use_pres_floor = 1
                /\ newton'.n_iter = newton.n_iter + 1]_vars

\* the loop has given up at the cap in the pressure-floor phase, which a
\* restart at the cap of the first phase had started
C12_Witness ==
    /\ newton.pc = "return 1"
    /\ newton.use_pres_floor = 1
    /\ newton.n_iter = NEWTON_MAX_ITER + 1
    /\ newton.soln_found = 0


(***************************************************************************)
(* Derivative calls on conserved fields of which one cell may hold no      *)
(* numbers (as a cell does one time step after a NaN derivative): the      *)
(* inversion of that cell fails, the others succeed                        *)
(***************************************************************************)
NaNCell == <<NaN, NaN, NaN, NaN, NaN, NaN, NaN, NaN>>

\* the cell that is broken: none, the first, or the fourth
BrokenCells == {0 - 1, 0, 3}

BrokenField(shape, name, bad) ==
    [c \in 0..(NCells(shape) - 1) |->
        IF c = bad THEN NaNCell ELSE ConservedField(shape, name)[c]]

NextArray ==
    \E name \in FieldNames, bad \in BrokenCells, junk \in Indeterminate :
        /\ FollowedField(name)
        /\ \/ dUdt_1d(BrokenField(GridShape, name, bad), OutputArray(GridShape),
                      [l |-> SolverInside, r |-> SolverInside], junk, ZeroCell)
           \/ dUdt_2d(BrokenField(GridShape, name, bad), OutputArray(GridShape),
                      [l |-> SolverInside, r |-> SolverInside], junk, ZeroCell)
           \/ dUdt_3d(BrokenField(GridShape, name, bad), OutputArray(GridShape),
                      [l |-> SolverInside, r |-> SolverInside], junk, ZeroCell)

SpecArray == InitGrid /\ [][NextArray]_vars

(***************************************************************************)
(* Properties of cons_to_prim_array                                        *)
(***************************************************************************)
\* a derivative call has run cons_to_prim_array in an Alive session
ArrayInverted == call.op \in DerivativeOps /\ libopstate = "Alive"

\* the point inversion of every cell of the last call, each from the guess
\* the cached primitive array held for it
PointInversions ==
    [c \in DOMAIN call.U |->
        cons_to_prim_point(lib_state, call.U[c], call.P0[c], call.W0)]

\* cell c of the cache holds W * v of the inversion r if that succeeded,
\* and what it held before the call if it failed
CacheFromOwn(r, c) ==
    IF r.ret = 0
    THEN /\ lib_ux[c] = Mul(r.W, r.P[vx])
         /\ lib_uy[c] = Mul(r.W, r.P[vy])
         /\ lib_uz[c] = Mul(r.W, r.P[vz])
    ELSE /\ lib_ux[c] = call.u0[1][c]
         /\ lib_uy[c] = call.u0[2][c]
         /\ lib_uz[c] = call.u0[3][c]

CacheKept == lib_ux = call.u0[1] /\ lib_uy = call.u0[2] /\ lib_uz = call.u0[3]

\* C13: cons_to_prim_array returns the number of cells whose inversion
\* failed; with 4-velocity reconstruction in an Alive session the cache
\* entry of a cell whose inversion succeeded is that cell's velocity times
\* the Lorentz factor of that same inversion, and the entry of a cell whose
\* inversion failed is not written; in other modes the cache is not written
C13_CacheFromOwnInversion ==
    ArrayInverted =>
        \A res \in {PointInversions} :
            /\ ~crashed =>
                  call.ret = Cardinality({c \in DOMAIN res : res[c].ret # 0})
            /\ IF lib_state.mode_reconstruct = Reconstruct_PLM4Velocity
               THEN \A c \in DOMAIN res : CacheFromOwn(res[c], c)
               ELSE CacheKept

\* the inversion of the fourth cell failed in a session with 4-velocity
\* reconstruction, the others succeeded, and the cache entry of the fourth
\* cell is the Lorentz factor of the third cell times the guess velocity
C13_Witness ==
    /\ ArrayInverted
    /\ ~crashed
    /\ call.ret = 1
    /\ call.U[3] = NaNCell
    /\ lib_state.mode_reconstruct = Reconstruct_PLM4Velocity
    /\ call.P0[3] = StateM
    /\ PrimitiveArray[3] = StateM
    /\ lib_ux[3] = Mul(Rat(5, 4), StateM[vx])
    /\ lib_ux[3] # call.u0[1][3]


(***************************************************************************)
(* The reconstruction functions called on their own, on a stencil of the   *)
(* 6x1x1 grid along x, in sessions that set_state has configured (or not)  *)
(***************************************************************************)
\* configurations that differ from those above in plm_theta
ThetaConfigs ==
    { [Config(0, Reconstruct_PLM4Velocity, SlopeLimiter_Minmod,
              RiemannSolver_HLL, QuarticSolver_Exact) EXCEPT !.plm_theta = One],
      [Config(0, Reconstruct_PLM4Velocity, SlopeLimiter_MonotizedCentral,
              RiemannSolver_HLL, QuarticSolver_Exact) EXCEPT !.plm_theta = One] }

InitRecon ==
    \E junk \in Indeterminate :
        \/ GridSession(LibraryStateDefault, "NULL", <<6, 1, 1>>, "A", junk)
        \/ \E state \in Configs \cup ThetaConfigs :
              GridSession(state, LimiterOf(state.mode_slope_limiter), <<6, 1, 1>>,
                          "A", junk)

\* primitive arrays of 6 cells: a ramp with unequal slopes, and a zigzag
StencilNames == {"ramp", "zigzag"}

StencilField(name) ==
    [c \in 0..5 |->
        CASE name = "ramp" ->
                <<Num(1 + c * c), Rat(1 + c * (c + 1), 2), Zero, Zero, Zero,
                  Num(c * c * c), Num(0 - c * c), Rat(7 * c, 3)>>
          [] name = "zigzag" ->
                <<Num(1 + (c % 2) * (c + 1)), Num(3 - (c % 2)), Zero, Zero, Zero,
                  Num((c % 2) * c), Num(c % 2), Num(2 + (c % 2) * c)>>]

\* 4-velocity arrays of 6 cells: u = (3/4, 0, 0) everywhere, and u = 0
CacheNames == {"moving", "zero"}

CacheField(name, k) ==
    [c \in 0..5 |-> IF name = "moving" /\ k = 1 THEN Rat(3, 4) ELSE Zero]

\* the cells P0 may point to: the stencil P0[-S] .. P0[2*S] lies in the array
StencilCells == 1..3

\* the call through an unset slope_limiter
reconstruct_fault(name, P, c) ==
    /\ crashed' = TRUE
    /\ call' = [op |-> name, ret |-> "none", P |-> P, c |-> c]

reconstruct_use_3vel_call(P, c) ==
    /\ ~crashed
    /\ budget.point < MaxPoint
    /\ budget' = [budget EXCEPT !.point = @ + 1]
    /\ IF slope_limiter = "NULL" THEN reconstruct_fault("reconstruct_use_3vel", P, c)
       ELSE /\ \E r \in {reconstruct_use_3vel(lib_state, slope_limiter,
                                               stride[dimension + 1] \div 8, P, c)} :
                 call' = [op |-> "reconstruct_use_3vel", ret |-> 0, P |-> P,
                          c |-> c, Pl |-> r.Pl, Pr |-> r.Pr]
            /\ UNCHANGED crashed
    /\ UNCHANGED <<globals, ptr, buffers, heap, L, newton>>

reconstruct_use_4vel_call(P, ux, uy, uz, c) ==
    /\ ~crashed
    /\ budget.point < MaxPoint
    /\ budget' = [budget EXCEPT !.point = @ + 1]
    /\ IF slope_limiter = "NULL" THEN reconstruct_fault("reconstruct_use_4vel", P, c)
       ELSE /\ \E r \in {reconstruct_use_4vel(lib_state, slope_limiter,
                                               stride[dimension + 1] \div 8, P,
                                               ux, uy, uz, c)} :
                 call' = [op |-> "reconstruct_use_4vel", ret |-> 0, P |-> P,
                          c |-> c, ux |-> ux, uy |-> uy, uz |-> uz,
                          Pl |-> r.Pl, Pr |-> r.Pr]
            /\ UNCHANGED crashed
    /\ UNCHANGED <<globals, ptr, buffers, heap, L, newton>>

NextRecon ==
    \/ \E name \in StencilNames, c \in StencilCells :
          reconstruct_use_3vel_call(StencilField(name), c)
    \/ \E name \in StencilNames, u \in CacheNames, c \in StencilCells :
          reconstruct_use_4vel_call(StencilField(name), CacheField(u, 1),
                                    CacheField(u, 2), CacheField(u, 3), c)

SpecRecon == InitRecon /\ [][NextRecon]_vars

(***************************************************************************)
(* Properties of the reconstruction                                        *)
(***************************************************************************)
\* the components limited directly: density, pressure and magnetic field
LimitedDirectly == {rho, pre, Bx, By, Bz}

\* C14: under each slope limiter that set_state selects, the density,
\* pressure and magnetic field of the left and right interface states of
\* reconstruct_use_4vel are those of reconstruct_use_3vel on the same stencil
C14_LimiterAppliedUniformly ==
    (call.op = "reconstruct_use_4vel" /\ ~crashed) =>
        \A r \in {reconstruct_use_3vel(lib_state, slope_limiter,
                                        stride[dimension + 1] \div 8, call.P,
                                        call.c)} :
            \A i \in LimitedDirectly : call.Pl[i] = r.Pl[i] /\ call.Pr[i] = r.Pr[i]

\* reconstruct_use_4vel has returned under the harmonic-mean limiter on the
\* ramp (densities 1, 2, 5), with the left density 2 + (1/2) * 2 = 3 of
\* plm_minmod where reconstruct_use_3vel gives 2 + (1/2) * (2*3*1)/(3+1) = 11/4
C14_Witness ==
    /\ call.op = "reconstruct_use_4vel"
    /\ ~crashed
    /\ slope_limiter = "harmonic_mean"
    /\ call.P = StencilField("ramp")
    /\ call.c = 1
    /\ call.Pl[rho] = Num(3)
    /\ reconstruct_use_3vel(lib_state, slope_limiter, 1, call.P, call.c).Pl[rho]
          = Rat(11, 4)


(***************************************************************************)
(* Properties of the limiter function pointer                              *)
(***************************************************************************)
\* C15: in every state of a session (any order of set_state, get_state,
\* initialize, finalize and dUdt_Nd calls from program start) slope_limiter
\* is the function that lib_state.mode_slope_limiter names, and no
\* derivative call has gone through an unset pointer
C15_LimiterIsTheOneNamed ==
    /\ slope_limiter = LimiterOf(lib_state.mode_slope_limiter)
    /\ ~(crashed /\ call.op \in DerivativeOps)

\* a derivative call of an initialised session in which set_state was never
\* called has gone through the unset pointer: the default configuration
\* (Minmod, 4-velocity reconstruction) is in force
C15_Witness ==
    /\ crashed
    /\ call.op \in DerivativeOps
    /\ libopstate = "Alive"
    /\ slope_limiter = "NULL"
    /\ lib_state.mode_slope_limiter = SlopeLimiter_Minmod
    /\ lib_state.mode_reconstruct = Reconstruct_PLM4Velocity

====
